---------------------------- MODULE Spec2Model ----------------------------
(***************************************************************************)
(* A model of the PunDat archiver: the prefix index kept in an embedded    *)
(* ordered key/value store (src/kubernetes/pundat.yaml, package prefix),   *)
(* the BTrDB v4 timeseries adapter (src/archiver/btrdb.v4.go) and the      *)
(* archiver's start/stop path (src/archiver/archiver.go).                  *)
(*                                                                         *)
(* Byte strings are sequences of byte values (naturals below 256); keys of *)
(* a bucket are ordered bytewise, as the store orders them.                *)
(***************************************************************************)
EXTENDS Integers, Sequences, FiniteSets, TLC

VARIABLES
    \* ---- prefix index (bolt file, three buckets) ----
    mdB,            \* "metadata" bucket: entry i holds key itob(i) -> value mdB[i] (a URI)
    tsB,            \* "timeseries" bucket: key URI -> sequence number it was last put with
    tsSeq,          \* the timeseries bucket's sequence counter
    uuidB,          \* "uuid" bucket: sub-bucket name (URI) -> its entries, entry i is itob(i) -> UUID
    res,            \* what the last read of the prefix index returned
    \* ---- timeseries adapter (btrdbv4Iface) and the engine behind it ----
    streamCache,    \* bdb.streamCache: the UUIDs that have a cached stream handle
    engStreams,     \* the streams that exist in the engine
    engWritten,     \* the streams that hold at least one committed reading
    currentWrites,  \* the package counter currentWrites
    completedWrites,\* the package counter completedWrites
    connected,      \* FALSE once bdb.conn.Disconnect() has run
    \* ---- goroutines calling the adapter ----
    pc,             \* where each goroutine stands
    op,             \* the operation a goroutine was started for
    call,           \* the adapter method it is in
    arg,            \* the stream UUID the method was called with
    err,            \* the method's err variable
    ret,            \* what the method returned
    how,            \* which way getStream went: "cached", "exists", "notexist", "iofail"
    ctx,            \* the method's ctx variable, given to its engine call
    \* ---- Archiver.Serve / Stop ----
    servePc,        \* where Serve stands
    cancelled,      \* the top-level context has been cancelled
    sigPc,          \* the signal goroutine of Serve
    stopPc,         \* the callers of Stop
    \* ---- view manager ----
    seen,           \* the streams whose URI has been registered in the prefix index
    \* ---- NewArchiver and the query worker pool ----
    newPc,          \* where NewArchiver stands
    failed,         \* the start-up steps that have failed
    setup,          \* the components NewArchiver has set up
    exitCode,       \* the exit status once the process has exited, else NoExit
    qlog,           \* per inbound message handled by listenQueries: what it did
    \* ---- readers of the adapter ----
    rd,             \* each goroutine's locals inside a read of the adapter
    \* ---- annotations ----
    ann,            \* the engine's annotations of each stream: version and value
    an,             \* each goroutine's locals inside AddAnnotations
    \* ---- metadata store (mongoStore) ----
    metadata,       \* m.metadata: the documents of the collection, in insertion order
    saveRet,        \* the last SaveMetadata call: its records, how many it upserted, its err
    \* ---- ValidTimestamp ----
    vt              \* a call of ValidTimestamp: its arguments and its result

prefixVars == <<mdB, tsB, tsSeq, uuidB, res>>
tsVars == <<streamCache, engStreams, engWritten, currentWrites, completedWrites,
            connected>>
goVars == <<pc, op, call, arg, err, ret, how, ctx>>
srvVars == <<servePc, cancelled, sigPc, stopPc>>
vmVars == <<seen>>
archVars == <<newPc, failed, setup, exitCode, qlog>>
readVars == <<rd>>
annVars == <<ann, an>>
mongoVars == <<metadata, saveRet>>
timeVars == <<vt>>

vars == <<prefixVars, tsVars, goVars, srvVars, vmVars, archVars, readVars,
          annVars, mongoVars, timeVars>>

---------------------------------------------------------------------------
(* Bounds and input sets *)

\* the number of successful Put transactions a run of the prefix index makes
MaxPuts == 3

\* "a", "a/b", "b" and the empty string
URIs == { <<>>, <<97>>, <<97, 47, 98>>, <<98>> }

UUIDs == { "u1", "u2" }

---------------------------------------------------------------------------
(* Byte strings *)

Range(s) == { s[i] : i \in DOMAIN s }

\* bytes.HasPrefix(k, bpfx); a nil slice has length 0
HasPrefix(k, bpfx) ==
    /\ Len(k) >= Len(bpfx)
    /\ \A i \in 1..Len(bpfx) : k[i] = bpfx[i]

\* bytes.Compare(a, b) < 0, the order in which a bucket keeps its keys
RECURSIVE BytesLess(_, _)
BytesLess(a, b) ==
    IF a = <<>> THEN b # <<>>
    ELSE IF b = <<>> THEN FALSE
    ELSE IF a[1] # b[1] THEN a[1] < b[1]
    ELSE BytesLess(Tail(a), Tail(b))

\* the keys of a bucket in cursor order
RECURSIVE SortedKeys(_)
SortedKeys(S) ==
    IF S = {} THEN <<>>
    ELSE LET m == CHOOSE k \in S : \A o \in S \ {k} : BytesLess(k, o)
         IN  <<m>> \o SortedKeys(S \ {m})

\* v >> (8 * n)
RECURSIVE ShiftBytes(_, _)
ShiftBytes(v, n) == IF n = 0 THEN v ELSE ShiftBytes(v \div 256, n - 1)

\* itob: the 8-byte big-endian encoding of a sequence number
itob(v) == [ i \in 1..8 |-> ShiftBytes(v, 8 - i) % 256 ]

\* SeqsOfSet with every element listed twice
SeqsOfSet_Twice(S) ==
    { s \o s : s \in { t \in [1..Cardinality(S) -> S] : Range(t) = S } }

\* every ordering of a finite set (Go ranges over a map in no fixed order)
SeqsOfSet(S) == { s \in [1..Cardinality(S) -> S] : Range(s) = S }

---------------------------------------------------------------------------
(* Prefix index: cursor scans *)

\* Cursor.Seek: the position of the first key >= seek, Len+1 when there is none
CursorSeek(ks, seek) ==
    IF \E i \in 1..Len(ks) : ~BytesLess(ks[i], seek)
    THEN CHOOSE i \in 1..Len(ks) :
            /\ ~BytesLess(ks[i], seek)
            /\ \A j \in 1..(i - 1) : BytesLess(ks[j], seek)
    ELSE Len(ks) + 1

\* for k, _ := c.Seek(bpfx); bytes.HasPrefix(k, bpfx); k, _ = c.Next() { matching = append(matching, string(k)) }
\* Past the last key the cursor yields a nil key, again and again; the loop has
\* no k != nil test, so it ends there only if HasPrefix(nil, bpfx) is false.
RECURSIVE PrefixScan(_, _, _, _)
PrefixScan(ks, i, bpfx, matching) ==
    IF i > Len(ks)
    THEN [matching |-> matching, diverges |-> HasPrefix(<<>>, bpfx)]
    ELSE IF HasPrefix(ks[i], bpfx)
         THEN PrefixScan(ks, i + 1, bpfx, Append(matching, ks[i]))
         ELSE [matching |-> matching, diverges |-> FALSE]

MetadataKeys == { itob(i) : i \in 1..Len(mdB) }

GetMetadataSuperstrings(prefix) ==
    LET ks == SortedKeys(MetadataKeys)
    IN  PrefixScan(ks, CursorSeek(ks, prefix), prefix, <<>>)

GetTimeseriesSuperstrings(prefix) ==
    LET ks == SortedKeys(DOMAIN tsB)
    IN  PrefixScan(ks, CursorSeek(ks, prefix), prefix, <<>>)

\* the loop over superURIs of GetUUIDsFromURI: a superstring with no
\* sub-bucket ends the whole View function (return nil)
RECURSIVE CollectUUIDs(_, _, _)
CollectUUIDs(superURIs, i, foundUUIDs) ==
    IF i > Len(superURIs) THEN foundUUIDs
    ELSE IF superURIs[i] \notin DOMAIN uuidB THEN foundUUIDs
    ELSE CollectUUIDs(superURIs, i + 1, foundUUIDs \cup Range(uuidB[superURIs[i]]))

\* the set of UUIDs GetUUIDsFromURI puts in its result list
GetUUIDsFromURI(uri) ==
    LET superURIs == GetTimeseriesSuperstrings(uri)
    IN  [found    |-> IF superURIs.diverges THEN {}
                      ELSE CollectUUIDs(superURIs.matching, 1, {}),
         diverges |-> superURIs.diverges]

---------------------------------------------------------------------------
(* Prefix index: writes.  Each is one Update transaction: it commits whole *)
(* or, when Put / CreateBucketIfNotExists refuses an empty key, not at all. *)

NumPuts ==
    LET RECURSIVE Sum(_)
        Sum(S) == IF S = {} THEN 0
                  ELSE LET u == CHOOSE x \in S : TRUE
                       IN  Len(uuidB[u]) + Sum(S \ {u})
    IN  Len(mdB) + tsSeq + Sum(DOMAIN uuidB)

NoRes == [op |-> "none", arg |-> <<>>, out |-> <<>>, diverges |-> FALSE]

\* b.Put(itob(id), []byte(uri)) with id the next sequence number
MetadataPut(uri) == Append(mdB, uri)

AddMetadataURI(uri) ==
    /\ mdB' = MetadataPut(uri)
    /\ UNCHANGED <<tsB, tsSeq, uuidB>>

\* TimeseriesPut with a key that is stored already taken out of the bucket
TimeseriesPut_DropsStored(uri) ==
    IF uri = <<>> THEN tsB
    ELSE IF uri \in DOMAIN tsB THEN [ k \in DOMAIN tsB \ {uri} |-> tsB[k] ]
    ELSE [ k \in DOMAIN tsB \cup {uri} |-> IF k = uri THEN tsSeq + 1 ELSE tsB[k] ]

\* b.Put([]byte(uri), itob(id)): refused (ErrKeyRequired) for the empty key
TimeseriesPut(uri) ==
    IF uri = <<>> THEN tsB
    ELSE [ k \in DOMAIN tsB \cup {uri} |-> IF k = uri THEN tsSeq + 1 ELSE tsB[k] ]

AddTimeseriesURI(uri) ==
    /\ tsB' = TimeseriesPut(uri)
    /\ tsSeq' = IF uri = <<>> THEN tsSeq ELSE tsSeq + 1
    /\ UNCHANGED <<mdB, uuidB>>

\* UUIDPut with the sub-bucket made and the Put of the UUID left out
UUIDPut_BucketOnly(uri, uuid) ==
    IF uri = <<>> THEN uuidB
    ELSE [ k \in DOMAIN uuidB \cup {uri} |->
             IF k \in DOMAIN uuidB THEN uuidB[k] ELSE <<>> ]

\* CreateBucketIfNotExists([]byte(uri)) (refused for the empty name), then
\* ub.Put(itob(id), uuid bytes) with id the sub-bucket's next sequence number
UUIDPut(uri, uuid) ==
    IF uri = <<>> THEN uuidB
    ELSE [ k \in DOMAIN uuidB \cup {uri} |->
             IF k = uri
             THEN Append(IF uri \in DOMAIN uuidB THEN uuidB[uri] ELSE <<>>, uuid)
             ELSE uuidB[k] ]

AddUUIDURIMapping(uri, uuid) ==
    /\ uuidB' = UUIDPut(uri, uuid)
    /\ UNCHANGED <<mdB, tsB, tsSeq>>

---------------------------------------------------------------------------
(* Prefix index: reads, as calls whose result is kept in res *)

CallGetMetadataSuperstrings(prefix) ==
    /\ LET r == GetMetadataSuperstrings(prefix)
       IN  res' = [op |-> "GetMetadataSuperstrings", arg |-> prefix,
                   out |-> r.matching, diverges |-> r.diverges]
    /\ UNCHANGED <<mdB, tsB, tsSeq, uuidB>>
    /\ UNCHANGED <<tsVars, goVars, srvVars, vmVars, archVars, readVars, annVars, mongoVars, timeVars>>

CallGetTimeseriesSuperstrings(prefix) ==
    /\ LET r == GetTimeseriesSuperstrings(prefix)
       IN  res' = [op |-> "GetTimeseriesSuperstrings", arg |-> prefix,
                   out |-> r.matching, diverges |-> r.diverges]
    /\ UNCHANGED <<mdB, tsB, tsSeq, uuidB>>
    /\ UNCHANGED <<tsVars, goVars, srvVars, vmVars, archVars, readVars, annVars, mongoVars, timeVars>>

\* for uuid, _ := range foundUUIDs { uuids = append(uuids, ...) }
CallGetUUIDsFromURI(uri) ==
    /\ LET r == GetUUIDsFromURI(uri)
       IN  \E uuids \in SeqsOfSet(r.found) :
              res' = [op |-> "GetUUIDsFromURI", arg |-> uri,
                      out |-> uuids, diverges |-> r.diverges]
    /\ UNCHANGED <<mdB, tsB, tsSeq, uuidB>>
    /\ UNCHANGED <<tsVars, goVars, srvVars, vmVars, archVars, readVars, annVars, mongoVars, timeVars>>


---------------------------------------------------------------------------
(* Timeseries adapter: errors and contexts *)

\* the goroutines that call the adapter: two, so that any step of one can
\* fall between any two steps of the other
Workers == {"g1", "g2"}

\* the writes a run completes between two reports
MaxWrites == 2

\* var timeout = time.Second * 60
timeout == 60

\* An error is the list of its messages, outermost first; nil is the empty list
Nil == <<>>
errStreamNotExist == <<"Stream does not exist">>
EngineErr == <<"engine error">>

\* errors.Wrap(e, msg)
Wrap(e, msg) == <<msg>> \o e

\* context.Background()
Background == [hasDeadline |-> FALSE, deadline |-> 0, cancelDeferred |-> FALSE]

\* ctx, cancel := context.WithTimeout(ctx, d); defer cancel()
WithTimeout(parent, d) == [hasDeadline |-> TRUE, deadline |-> d, cancelDeferred |-> TRUE]

\* what an engine call may answer: once disconnected, only an error
EngineOutcomes == IF connected THEN {"ok", "fail"} ELSE {"fail"}

NoRet == [exists |-> FALSE, err |-> Nil]

At(w, label) == pc[w] = label
Goto(w, label) == pc' = [pc EXCEPT ![w] = label]

---------------------------------------------------------------------------
(* getStream *)

\* the context getStream gives stream.Exists
getStreamCtx == WithTimeout(Background, timeout)

\* the err getStream returns after asking the engine
getStreamErr(exists, io) ==
    IF io = "fail" THEN Wrap(EngineErr, "Could not fetch stream")
    ELSE IF exists THEN Nil
    ELSE errStreamNotExist

\* getStreamInstalls with the handle cached whatever Exists answered
getStreamInstalls_IgnoresExists(exists, io) == io = "ok"

\* whether getStream goes on to put the handle in the cache
getStreamInstalls(exists, io) == io = "ok" /\ exists

\* where getStream's caller goes on
AfterGetStream(w) ==
    IF call[w] = "StreamExists" THEN "se_ret"
    ELSE IF call[w] = "uuidsToStreams" THEN "u2s_ret"
    ELSE "ar_enter"

\* RLock; stream, found := bdb.streamCache[uuid]; RUnlock; if found { return };
\* else ctx, cancel := context.WithTimeout(context.Background(), timeout)
GetStreamCache(w) ==
    /\ At(w, "gs_cache")
    /\ IF arg[w] \in streamCache
       THEN /\ how' = [how EXCEPT ![w] = "cached"]
            /\ err' = [err EXCEPT ![w] = Nil]
            /\ Goto(w, AfterGetStream(w))
            /\ UNCHANGED ctx
       ELSE /\ ctx' = [ctx EXCEPT ![w] = getStreamCtx]
            /\ Goto(w, "gs_exists")
            /\ UNCHANGED <<how, err>>
    /\ UNCHANGED <<op, call, arg, ret>>
    /\ UNCHANGED <<tsVars, prefixVars, srvVars, vmVars, archVars, readVars, annVars, mongoVars, timeVars>>

\* stream.Exists(ctx) and the branches on its answer
GetStreamExists(w) ==
    /\ At(w, "gs_exists")
    /\ \E io \in EngineOutcomes :
          LET exists == arg[w] \in engStreams
          IN  /\ err' = [err EXCEPT ![w] = getStreamErr(exists, io)]
              /\ how' = [how EXCEPT ![w] =
                            IF io = "fail" THEN "iofail"
                            ELSE IF exists THEN "exists" ELSE "notexist"]
              /\ IF getStreamInstalls(exists, io)
                 THEN Goto(w, "gs_install")
                 ELSE Goto(w, AfterGetStream(w))
    /\ UNCHANGED <<op, call, arg, ret, ctx>>
    /\ UNCHANGED <<tsVars, prefixVars, srvVars, vmVars, archVars, readVars, annVars, mongoVars, timeVars>>

\* Lock; bdb.streamCache[uuid] = stream; Unlock; return
GetStreamInstall(w) ==
    /\ At(w, "gs_install")
    /\ streamCache' = streamCache \cup {arg[w]}
    /\ Goto(w, AfterGetStream(w))
    /\ UNCHANGED <<op, call, arg, err, ret, how, ctx>>
    /\ UNCHANGED <<engStreams, engWritten, currentWrites, completedWrites, connected>>
    /\ UNCHANGED <<prefixVars, srvVars, vmVars, archVars, readVars, annVars, mongoVars, timeVars>>

---------------------------------------------------------------------------
(* StreamExists *)

\* StreamExistsResult with errStreamNotExist handed on as an error
StreamExistsResult_NoSentinel(e) ==
    IF e = Nil THEN [exists |-> TRUE, err |-> Nil]
    ELSE [exists |-> FALSE, err |-> e]

\* the three returns of StreamExists
StreamExistsResult(e) ==
    IF e = Nil THEN [exists |-> TRUE, err |-> Nil]
    ELSE IF e = errStreamNotExist THEN [exists |-> FALSE, err |-> Nil]
    ELSE [exists |-> FALSE, err |-> e]

StreamExistsReturn(w) ==
    /\ At(w, "se_ret")
    /\ ret' = [ret EXCEPT ![w] = StreamExistsResult(err[w])]
    /\ Goto(w, IF op[w] = "Ingest" THEN "vm_checked" ELSE "done")
    /\ UNCHANGED <<op, call, arg, err, how, ctx>>
    /\ UNCHANGED <<tsVars, prefixVars, srvVars, vmVars, archVars, readVars, annVars, mongoVars, timeVars>>

---------------------------------------------------------------------------
(* createStream / RegisterStream *)

\* ctx, cancel := context.WithTimeout(context.Background(), timeout), createStream's first statements
createStreamCtx == WithTimeout(Background, timeout)

\* whether bdb.conn.Create succeeds: the engine refuses a UUID it already has
CreateSucceeds(exists, io) == io = "ok" /\ ~exists

\* createStreamInstalls with the handle never put in the cache
createStreamInstalls_Never(e) == FALSE

\* if err == nil { ... bdb.streamCache[uuid] = stream ... }: whether createStream
\* goes on to put the handle in the cache
createStreamInstalls(e) == e = Nil

\* stream, err = bdb.conn.Create(ctx, ...)
CreateStreamCreate(w) ==
    /\ At(w, "cs_create")
    /\ \E io \in EngineOutcomes :
          LET created == CreateSucceeds(arg[w] \in engStreams, io)
              e == IF created THEN Nil ELSE EngineErr
          IN  /\ engStreams' = IF created THEN engStreams \cup {arg[w]} ELSE engStreams
              /\ err' = [err EXCEPT ![w] = e]
              /\ Goto(w, IF createStreamInstalls(e) THEN "cs_install" ELSE "rs_ret")
    /\ UNCHANGED <<op, call, arg, ret, how, ctx>>
    /\ UNCHANGED <<streamCache, engWritten, currentWrites, completedWrites, connected>>
    /\ UNCHANGED <<prefixVars, srvVars, vmVars, archVars, readVars, annVars, mongoVars, timeVars>>

\* if err == nil { Lock; bdb.streamCache[uuid] = stream; Unlock }
CreateStreamInstall(w) ==
    /\ At(w, "cs_install")
    /\ streamCache' = streamCache \cup {arg[w]}
    /\ Goto(w, "rs_ret")
    /\ UNCHANGED <<op, call, arg, err, ret, how, ctx>>
    /\ UNCHANGED <<engStreams, engWritten, currentWrites, completedWrites, connected>>
    /\ UNCHANGED <<prefixVars, srvVars, vmVars, archVars, readVars, annVars, mongoVars, timeVars>>

\* _, err := bdb.createStream(...); return err
RegisterStreamReturn(w) ==
    /\ At(w, "rs_ret")
    /\ ret' = [ret EXCEPT ![w] = [exists |-> FALSE, err |-> err[w]]]
    /\ Goto(w, IF op[w] = "Ingest" THEN "vm_registered" ELSE "done")
    /\ UNCHANGED <<op, call, arg, err, how, ctx>>
    /\ UNCHANGED <<tsVars, prefixVars, srvVars, vmVars, archVars, readVars, annVars, mongoVars, timeVars>>

---------------------------------------------------------------------------
(* AddReadings *)

\* ctx := context.Background(), the context given to stream.InsertF
AddReadingsCtx == Background

\* if err != nil { return errors.Wrap(err, ...) }; atomic.AddInt64(&currentWrites, 1);
\* ctx := context.Background()
AddReadingsEnter(w) ==
    /\ At(w, "ar_enter")
    /\ IF err[w] # Nil
       THEN /\ ret' = [ret EXCEPT ![w] =
                         [exists |-> FALSE,
                          err |-> Wrap(err[w], "AddReadings: could not get stream")]]
            /\ Goto(w, "done")
            /\ UNCHANGED <<currentWrites, ctx>>
       ELSE /\ currentWrites' = currentWrites + 1
            /\ ctx' = [ctx EXCEPT ![w] = AddReadingsCtx]
            /\ Goto(w, "ar_insert")
            /\ UNCHANGED ret
    /\ UNCHANGED <<op, call, arg, err, how>>
    /\ UNCHANGED <<streamCache, engStreams, engWritten, completedWrites, connected>>
    /\ UNCHANGED <<prefixVars, srvVars, vmVars, archVars, readVars, annVars, mongoVars, timeVars>>

\* return stream.InsertF(ctx, len(readings.Records), timefunc, valfunc)
AddReadingsInsert(w) ==
    /\ At(w, "ar_insert")
    /\ \E io \in EngineOutcomes :
          /\ engWritten' = IF io = "ok" THEN engWritten \cup {arg[w]} ELSE engWritten
          /\ err' = [err EXCEPT ![w] = IF io = "ok" THEN Nil ELSE EngineErr]
    /\ Goto(w, "ar_release")
    /\ UNCHANGED <<op, call, arg, ret, how, ctx>>
    /\ UNCHANGED <<streamCache, engStreams, currentWrites, completedWrites, connected>>
    /\ UNCHANGED <<prefixVars, srvVars, vmVars, archVars, readVars, annVars, mongoVars, timeVars>>

\* ReleasedWrites with the decrement made on the successful path only
ReleasedWrites_OnSuccessOnly(n, insertErr) == IF insertErr = Nil THEN n - 1 ELSE n

\* the deferred function's first statement, given the error InsertF returned
ReleasedWrites(n, insertErr) == n - 1

\* defer: atomic.AddInt64(&currentWrites, -1)
AddReadingsRelease(w) ==
    /\ At(w, "ar_release")
    /\ currentWrites' = ReleasedWrites(currentWrites, err[w])
    /\ Goto(w, "ar_complete")
    /\ UNCHANGED <<op, call, arg, err, ret, how, ctx>>
    /\ UNCHANGED <<streamCache, engStreams, engWritten, completedWrites, connected>>
    /\ UNCHANGED <<prefixVars, srvVars, vmVars, archVars, readVars, annVars, mongoVars, timeVars>>

\* the deferred function's second statement, given the error InsertF returned
CompletedWrites(n, insertErr) == n + 1

\* defer: atomic.AddInt64(&completedWrites, 1); then the return of InsertF's error
AddReadingsComplete(w) ==
    /\ At(w, "ar_complete")
    /\ completedWrites' = CompletedWrites(completedWrites, err[w])
    /\ ret' = [ret EXCEPT ![w] = [exists |-> FALSE, err |-> err[w]]]
    /\ Goto(w, "done")
    /\ UNCHANGED <<op, call, arg, err, how, ctx>>
    /\ UNCHANGED <<streamCache, engStreams, engWritten, currentWrites, connected>>
    /\ UNCHANGED <<prefixVars, srvVars, vmVars, archVars, readVars, annVars, mongoVars, timeVars>>

---------------------------------------------------------------------------
(* Callers of the adapter *)

NoUUID == "none"

\* the goroutines that are in a call that may write
Writers == { w \in Workers : pc[w] \notin {"idle", "done"} /\ op[w] \in {"AddReadings", "Ingest"} }

\* the bound on a run: no call that may write starts once it is used up
MayWrite == completedWrites + Cardinality(Writers) < MaxWrites

Enter(w, o, c, u, label, cx) ==
    /\ op' = [op EXCEPT ![w] = o]
    /\ call' = [call EXCEPT ![w] = c]
    /\ arg' = [arg EXCEPT ![w] = u]
    /\ err' = [err EXCEPT ![w] = Nil]
    /\ ret' = [ret EXCEPT ![w] = NoRet]
    /\ how' = [how EXCEPT ![w] = "none"]
    /\ ctx' = [ctx EXCEPT ![w] = cx]
    /\ Goto(w, label)

\* bdb.AddReadings(readings) with readings.UUID = u
CallAddReadings(w, u) ==
    /\ At(w, "idle")
    /\ MayWrite
    /\ Enter(w, "AddReadings", "AddReadings", u, "gs_cache", Background)
    /\ UNCHANGED <<tsVars, prefixVars, srvVars, vmVars, archVars, readVars, annVars, mongoVars, timeVars>>

\* bdb.StreamExists(u)
CallStreamExists(w, u) ==
    /\ At(w, "idle")
    /\ Enter(w, "StreamExists", "StreamExists", u, "gs_cache", Background)
    /\ UNCHANGED <<tsVars, prefixVars, srvVars, vmVars, archVars, readVars, annVars, mongoVars, timeVars>>

\* bdb.RegisterStream(u, uri, name, unit), up to createStream's engine call
CallRegisterStream(w, u) ==
    /\ At(w, "idle")
    /\ Enter(w, "RegisterStream", "RegisterStream", u, "cs_create", createStreamCtx)
    /\ UNCHANGED <<tsVars, prefixVars, srvVars, vmVars, archVars, readVars, annVars, mongoVars, timeVars>>

\* the caller takes the result and is free for its next call
Return(w) ==
    /\ At(w, "done")
    /\ Enter(w, "none", "none", NoUUID, "idle", Background)
    /\ UNCHANGED <<tsVars, prefixVars, srvVars, vmVars, archVars, readVars, annVars, mongoVars, timeVars>>

---------------------------------------------------------------------------
(* Streaming reads: GetData, StatisticalData, WindowData, ChangedRanges and *)
(* the ...UUID forms of the first three                                     *)

\* the most points the engine sends on one value channel
MaxPoints == 2

\* the goroutines that read
Readers == {"g1"}

\* the reads over a list of UUIDs, and those of one UUID
ListReads == {"GetData", "StatisticalData", "WindowData", "ChangedRanges"}
UUIDReads == {"GetDataUUID", "StatisticalDataUUID", "WindowDataUUID"}

\* RawValues, AlignedWindows and Windows hand back a generations channel
\* beside the value and error channels; Changes' second channel is not read
ReadsGeneration(o) == o # "ChangedRanges"

\* the argument lists of the reads
UUIDLists(o) ==
    IF o \in UUIDReads THEN { <<u>> : u \in UUIDs }
    ELSE { <<>> } \cup { <<u>> : u \in UUIDs } \cup { <<u, v>> : u, v \in UUIDs }

\* the locals of a read: the arguments, the position of uuidsToStreams' loop
\* and its streams, the position of the loop over the streams, for every
\* value channel the engine handed back the number of points still to be
\* received from it (the channel is closed once they are sent), the error
\* the engine puts on errchan, the records and the results gathered
NewRead(o, uuids) ==
    [op |-> o, uuids |-> uuids, k |-> 1, streams |-> <<>>, s |-> 1,
     chans |-> <<>>, errval |-> Nil, records |-> 0, results |-> <<>>]

\* a goroutine outside any read
NoRead == NewRead("none", <<>>)

InitReaders == rd = [w \in Workers |-> NoRead]

\* a read is called; it first calls bdb.uuidsToStreams(uuids...)
CallRead(w, o, uuids) ==
    /\ At(w, "idle")
    /\ Enter(w, o, "uuidsToStreams", NoUUID, "u2s_loop", Background)
    /\ rd' = [rd EXCEPT ![w] = NewRead(o, uuids)]
    /\ UNCHANGED <<tsVars, prefixVars, srvVars, vmVars, archVars, annVars, mongoVars, timeVars>>

\* for _, id := range uuids { stream, err := bdb.getStream(id) ...
UUIDsToStreamsLoop(w) ==
    /\ At(w, "u2s_loop")
    /\ IF rd[w].k > Len(rd[w].uuids)
       THEN /\ Goto(w, IF rd[w].op = "AddAnnotations" THEN "aa_loop" ELSE "rd_loop")
            /\ UNCHANGED <<arg, err, how>>
       ELSE /\ arg' = [arg EXCEPT ![w] = rd[w].uuids[rd[w].k]]
            /\ err' = [err EXCEPT ![w] = Nil]
            /\ how' = [how EXCEPT ![w] = "none"]
            /\ Goto(w, "gs_cache")
    /\ UNCHANGED <<op, call, ret, ctx>>
    /\ UNCHANGED <<tsVars, prefixVars, srvVars, vmVars, archVars, readVars, annVars, mongoVars, timeVars>>

\* whether uuidsToStreams appends the stream getStream returned
uuidsToStreamsKeeps(e) == e = Nil

\* if err == nil { streams = append(streams, stream); continue }; a stream that
\* does not exist is skipped, any other error is logged and skipped
UUIDsToStreamsReturn(w) ==
    /\ At(w, "u2s_ret")
    /\ rd' = [rd EXCEPT ![w].k = @ + 1,
                        ![w].streams = IF uuidsToStreamsKeeps(err[w])
                                       THEN Append(@, arg[w]) ELSE @]
    /\ Goto(w, "u2s_loop")
    /\ UNCHANGED <<op, call, arg, err, ret, how, ctx>>
    /\ UNCHANGED <<tsVars, prefixVars, srvVars, vmVars, archVars, annVars, mongoVars, timeVars>>

\* for _, stream := range streams { ... }; return results, nil.  The ...UUID
\* reads take uuidsToStreams(uuid)[0] instead: an index out of range, and so
\* a panic, when no stream came back
ReadLoop(w) ==
    /\ At(w, "rd_loop")
    /\ IF rd[w].op \in UUIDReads
       THEN /\ Goto(w, IF Len(rd[w].streams) = 0 THEN "panicked" ELSE "rd_open")
            /\ UNCHANGED ret
       ELSE IF rd[w].s > Len(rd[w].streams)
            THEN /\ ret' = [ret EXCEPT ![w] = [exists |-> FALSE, err |-> Nil]]
                 /\ Goto(w, "rd_done")
            ELSE /\ Goto(w, "rd_open")
                 /\ UNCHANGED ret
    /\ UNCHANGED <<op, call, arg, err, how, ctx>>
    /\ UNCHANGED <<tsVars, prefixVars, srvVars, vmVars, archVars, readVars, annVars, mongoVars, timeVars>>

\* the context a read gives its engine call
ReadCtx == WithTimeout(Background, timeout)

\* ctx, cancel := context.WithTimeout(...); defer cancel();
\* rawpoints, generations, errchan := stream.RawValues(ctx, start, end, 0)
\* (AlignedWindows, Windows, Changes): the engine will send n points and
\* close the value channel, and put its error or nil on errchan
ReadOpen(w) ==
    /\ At(w, "rd_open")
    /\ ctx' = [ctx EXCEPT ![w] = ReadCtx]
    /\ \E n \in 0..MaxPoints, io \in EngineOutcomes :
          rd' = [rd EXCEPT ![w].chans = Append(@, n),
                           ![w].errval = IF io = "fail" THEN EngineErr ELSE Nil]
    /\ Goto(w, "rd_range")
    /\ UNCHANGED <<op, call, arg, err, ret, how>>
    /\ UNCHANGED <<tsVars, prefixVars, srvVars, vmVars, archVars, annVars, mongoVars, timeVars>>

\* RangeEnds with the loop left before the first receive
RangeEnds_AtOnce(left) == TRUE

\* for point := range rawpoints ends when the channel is closed and empty
RangeEnds(left) == left = 0

\* for point := range rawpoints { ts.Records = append(ts.Records, ...) }
ReadRange(w) ==
    /\ At(w, "rd_range")
    /\ LET c == Len(rd[w].chans)
       IN  IF RangeEnds(rd[w].chans[c])
           THEN /\ Goto(w, IF ReadsGeneration(rd[w].op) THEN "rd_gen" ELSE "rd_err")
                /\ UNCHANGED rd
           ELSE /\ rd' = [rd EXCEPT ![w].chans[c] = @ - 1, ![w].records = @ + 1]
                /\ UNCHANGED pc
    /\ UNCHANGED <<op, call, arg, err, ret, how, ctx>>
    /\ UNCHANGED <<tsVars, prefixVars, srvVars, vmVars, archVars, annVars, mongoVars, timeVars>>

\* ts.Generation = <-generations
ReadGeneration(w) ==
    /\ At(w, "rd_gen")
    /\ Goto(w, "rd_err")
    /\ UNCHANGED <<op, call, arg, err, ret, how, ctx>>
    /\ UNCHANGED <<tsVars, prefixVars, srvVars, vmVars, archVars, readVars, annVars, mongoVars, timeVars>>

\* if err := <-errchan; err != nil { return results, errors.Wrapf(...) };
\* results = append(results, ts) (the ...UUID reads return ts, nil)
ReadError(w) ==
    /\ At(w, "rd_err")
    /\ IF rd[w].errval # Nil
       THEN /\ ret' = [ret EXCEPT ![w] =
                         [exists |-> FALSE, err |-> Wrap(rd[w].errval, "Could not fetch data")]]
            /\ Goto(w, "rd_done")
            /\ UNCHANGED rd
       ELSE /\ rd' = [rd EXCEPT ![w].results = Append(@, rd[w].streams[rd[w].s]),
                                ![w].s = @ + 1]
            /\ IF rd[w].op \in UUIDReads
               THEN /\ ret' = [ret EXCEPT ![w] = [exists |-> FALSE, err |-> Nil]]
                    /\ Goto(w, "rd_done")
               ELSE /\ Goto(w, "rd_loop")
                    /\ UNCHANGED ret
    /\ UNCHANGED <<op, call, arg, err, how, ctx>>
    /\ UNCHANGED <<tsVars, prefixVars, srvVars, vmVars, archVars, annVars, mongoVars, timeVars>>

\* the caller takes the results and is free for its next call
ReadReturn(w) ==
    /\ At(w, "rd_done")
    /\ Enter(w, "none", "none", NoUUID, "idle", Background)
    /\ rd' = [rd EXCEPT ![w] = NoRead]
    /\ UNCHANGED <<tsVars, prefixVars, srvVars, vmVars, archVars, annVars, mongoVars, timeVars>>

---------------------------------------------------------------------------
(* NewArchiver's report goroutine *)

\* every 10 seconds: _completed := atomic.SwapInt64(&completedWrites, 0); the
\* other two counters are only loaded
Report ==
    /\ completedWrites' = 0
    /\ UNCHANGED <<streamCache, engStreams, engWritten, currentWrites, connected>>
    /\ UNCHANGED <<goVars, prefixVars, srvVars, vmVars, archVars, readVars, annVars, mongoVars, timeVars>>

---------------------------------------------------------------------------
(* Archiver.Serve and Archiver.Stop *)

StopCallers == {"s1"}

\* sig := <-sigs: a SIGINT / SIGTERM is delivered to the signal goroutine
Signal ==
    /\ sigPc = "wait"
    /\ sigPc' = "send"
    /\ UNCHANGED <<servePc, cancelled, stopPc>>
    /\ UNCHANGED <<tsVars, goVars, prefixVars, vmVars, archVars, readVars, annVars, mongoVars, timeVars>>

\* Stop is called: it stands at a.stop <- true
CallStop(c) ==
    /\ stopPc[c] = "idle"
    /\ stopPc' = [stopPc EXCEPT ![c] = "send"]
    /\ UNCHANGED <<servePc, cancelled, sigPc>>
    /\ UNCHANGED <<tsVars, goVars, prefixVars, vmVars, archVars, readVars, annVars, mongoVars, timeVars>>

\* <-a.stop in Serve meets a.stop <- true of the signal goroutine (the
\* channel has no buffer)
ServeRecvSignal ==
    /\ servePc = "recv"
    /\ sigPc = "send"
    /\ servePc' = "cancel"
    /\ sigPc' = "done"
    /\ UNCHANGED <<cancelled, stopPc>>
    /\ UNCHANGED <<tsVars, goVars, prefixVars, vmVars, archVars, readVars, annVars, mongoVars, timeVars>>

\* <-a.stop in Serve meets a.stop <- true of a Stop call
ServeRecvStop(c) ==
    /\ servePc = "recv"
    /\ stopPc[c] = "send"
    /\ servePc' = "cancel"
    /\ stopPc' = [stopPc EXCEPT ![c] = "done"]
    /\ UNCHANGED <<cancelled, sigPc>>
    /\ UNCHANGED <<tsVars, goVars, prefixVars, vmVars, archVars, readVars, annVars, mongoVars, timeVars>>

\* cancel()
ServeCancel ==
    /\ servePc = "cancel"
    /\ cancelled' = TRUE
    /\ servePc' = "disconnect"
    /\ UNCHANGED <<sigPc, stopPc>>
    /\ UNCHANGED <<tsVars, goVars, prefixVars, vmVars, archVars, readVars, annVars, mongoVars, timeVars>>

\* a.TS.Disconnect(), which is bdb.conn.Disconnect()
Disconnect ==
    /\ servePc = "disconnect"
    /\ connected' = FALSE
    /\ servePc' = "returned"
    /\ UNCHANGED <<cancelled, sigPc, stopPc>>
    /\ UNCHANGED <<streamCache, engStreams, engWritten, currentWrites, completedWrites>>
    /\ UNCHANGED <<goVars, prefixVars, vmVars, archVars, readVars, annVars, mongoVars, timeVars>>

---------------------------------------------------------------------------
(* View manager: what it does with one inbound message of a stream.  Each  *)
(* stream has one concrete URI; its UUID is derived from its identity.     *)

\* u1 is a stream on "a", u2 a stream on "a/b"
StreamURI(u) == IF u = "u1" THEN <<97>> ELSE <<97, 47, 98>>

\* a message of stream u arrives on a subscription (none once the context is cancelled)
Ingest(w, u) ==
    /\ At(w, "idle")
    /\ ~cancelled
    /\ MayWrite
    /\ IF u \in seen
       THEN Enter(w, "Ingest", "AddReadings", u, "gs_cache", Background)
       ELSE Enter(w, "Ingest", "none", u, "vm_addts", Background)
    /\ UNCHANGED <<tsVars, prefixVars, srvVars, vmVars, archVars, readVars, annVars, mongoVars, timeVars>>

\* newly seen: mark the URI as a concrete timeseries URI
VMAddTimeseriesURI(w) ==
    /\ At(w, "vm_addts")
    /\ AddTimeseriesURI(StreamURI(arg[w]))
    /\ Goto(w, "vm_adduuid")
    /\ UNCHANGED <<res, op, call, arg, err, ret, how, ctx>>
    /\ UNCHANGED <<tsVars, srvVars, vmVars, archVars, readVars, annVars, mongoVars, timeVars>>

\* newly seen: register the UUID under the URI, then ask whether the stream exists
VMAddUUID(w) ==
    /\ At(w, "vm_adduuid")
    /\ AddUUIDURIMapping(StreamURI(arg[w]), arg[w])
    /\ seen' = seen \cup {arg[w]}
    /\ call' = [call EXCEPT ![w] = "StreamExists"]
    /\ Goto(w, "gs_cache")
    /\ UNCHANGED <<res, op, arg, err, ret, how, ctx>>
    /\ UNCHANGED <<tsVars, srvVars, archVars, readVars, annVars, mongoVars, timeVars>>

\* the engine reports the stream does not exist: RegisterStream; it exists:
\* commit the reading; StreamExists failed: give the message up
VMChecked(w) ==
    /\ At(w, "vm_checked")
    /\ IF ret[w].err # Nil
       THEN Goto(w, "done") /\ UNCHANGED <<call, err, ctx>>
       ELSE IF ret[w].exists
            THEN /\ call' = [call EXCEPT ![w] = "AddReadings"]
                 /\ err' = [err EXCEPT ![w] = Nil]
                 /\ Goto(w, "gs_cache")
                 /\ UNCHANGED ctx
            ELSE /\ call' = [call EXCEPT ![w] = "RegisterStream"]
                 /\ err' = [err EXCEPT ![w] = Nil]
                 /\ ctx' = [ctx EXCEPT ![w] = createStreamCtx]
                 /\ Goto(w, "cs_create")
    /\ UNCHANGED <<op, arg, ret, how>>
    /\ UNCHANGED <<tsVars, prefixVars, srvVars, vmVars, archVars, readVars, annVars, mongoVars, timeVars>>

\* RegisterStream returned: commit the reading, or give the message up
VMRegistered(w) ==
    /\ At(w, "vm_registered")
    /\ IF ret[w].err # Nil
       THEN Goto(w, "done") /\ UNCHANGED <<call, err>>
       ELSE /\ call' = [call EXCEPT ![w] = "AddReadings"]
            /\ err' = [err EXCEPT ![w] = Nil]
            /\ Goto(w, "gs_cache")
    /\ UNCHANGED <<op, arg, ret, how, ctx>>
    /\ UNCHANGED <<tsVars, prefixVars, srvVars, vmVars, archVars, readVars, annVars, mongoVars, timeVars>>

---------------------------------------------------------------------------
(* NewArchiver *)

Running == <<>>
\* log.Fatal, log.Fatalf and bw2's ...OrExit calls end the process with status 1
FatalExit == <<1>>

\* the keys of the four metadata indexes, in the order addIndexes makes them
IndexKeys == <<"UUID", "Path", "SrcURI", "Key">>

NewAt(label) == newPc.at = label /\ exitCode = Running
NewGoto(label) == newPc' = [at |-> label, i |-> 0]

\* log.Fatal on the failure of step
Fatal(step) ==
    /\ failed' = failed \cup {step}
    /\ exitCode' = FatalExit
    /\ UNCHANGED <<newPc, setup, qlog>>

\* the field a.TS has the interface type TimeseriesStore (it takes adapters of
\* several types); holding the nil *btrdbv4Iface that newBTrDBv4 returns
\* when it cannot connect, the interface value is not equal to nil
TimeseriesStoreIsNil(connectFailed) == FALSE

\* mongoaddr, err := net.ResolveTCPAddr(...); if err != nil { log.Fatal(...) }
NAResolve ==
    /\ NewAt("resolve")
    /\ \E ok \in BOOLEAN :
         IF ok THEN NewGoto("mongo") /\ UNCHANGED <<failed, setup, exitCode, qlog>>
         ELSE Fatal("resolve")
    /\ UNCHANGED <<prefixVars, tsVars, goVars, srvVars, vmVars, readVars, annVars, mongoVars, timeVars>>

\* a.MD = newMongoStore(...): mgo.Dial; on its failure newMongoStore returns
\* nil and NewArchiver goes on; else the indexes are made next
NAMongoDial ==
    /\ NewAt("mongo")
    /\ \E ok \in BOOLEAN :
         IF ok
         THEN /\ newPc' = [at |-> "index", i |-> 1]
              /\ UNCHANGED <<failed, setup>>
         ELSE /\ NewGoto("btrdb")
              /\ failed' = failed \cup {"mddial"}
              /\ setup' = setup \cup {"MD"}
    /\ UNCHANGED <<exitCode, qlog>>
    /\ UNCHANGED <<prefixVars, tsVars, goVars, srvVars, vmVars, readVars, annVars, mongoVars, timeVars>>

\* addIndexes: err = m.metadata.EnsureIndex(index); if err != nil { log.Fatalf(...) }
NAAddIndex ==
    /\ NewAt("index")
    /\ \E ok \in BOOLEAN :
         IF ok
         THEN /\ IF newPc.i < Len(IndexKeys)
                 THEN newPc' = [newPc EXCEPT !.i = @ + 1] /\ UNCHANGED setup
                 ELSE NewGoto("btrdb") /\ setup' = setup \cup {"MD"}
              /\ UNCHANGED <<failed, exitCode, qlog>>
         ELSE Fatal("index")
    /\ UNCHANGED <<prefixVars, tsVars, goVars, srvVars, vmVars, readVars, annVars, mongoVars, timeVars>>

\* a.TS = newBTrDBv4(...): btrdb.Connect; on its failure newBTrDBv4 returns nil
NABtrdbConnect ==
    /\ NewAt("btrdb")
    /\ \E ok \in BOOLEAN :
         failed' = IF ok THEN failed ELSE failed \cup {"tsconnect"}
    /\ setup' = setup \cup {"TS"}
    /\ NewGoto("checkts")
    /\ UNCHANGED <<exitCode, qlog>>
    /\ UNCHANGED <<prefixVars, tsVars, goVars, srvVars, vmVars, readVars, annVars, mongoVars, timeVars>>

\* if a.TS == nil { log.Fatal("could not connect to btrdb") }
NACheckTS ==
    /\ NewAt("checkts")
    /\ IF TimeseriesStoreIsNil("tsconnect" \in failed)
       THEN Fatal("tsnil")
       ELSE NewGoto("bw") /\ UNCHANGED <<failed, setup, exitCode, qlog>>
    /\ UNCHANGED <<prefixVars, tsVars, goVars, srvVars, vmVars, readVars, annVars, mongoVars, timeVars>>

\* a.bw = bw2.ConnectOrExit(...); a.vk = a.bw.SetEntityFileOrExit(...)
NAFabric ==
    /\ NewAt("bw")
    /\ \E ok \in BOOLEAN :
         IF ok
         THEN /\ NewGoto("expiry")
              /\ setup' = setup \cup {"bw"}
              /\ UNCHANGED <<failed, exitCode, qlog>>
         ELSE Fatal("bw")
    /\ UNCHANGED <<prefixVars, tsVars, goVars, srvVars, vmVars, readVars, annVars, mongoVars, timeVars>>

\* expiry, err := time.ParseDuration(...); if err != nil { log.Fatal(...) };
\* a.dotmaster = dots.NewDotMaster(a.bw, expiry)
NAExpiry ==
    /\ NewAt("expiry")
    /\ \E ok \in BOOLEAN :
         IF ok
         THEN /\ NewGoto("vm")
              /\ setup' = setup \cup {"dotmaster"}
              /\ UNCHANGED <<failed, exitCode, qlog>>
         ELSE Fatal("expiry")
    /\ UNCHANGED <<prefixVars, tsVars, goVars, srvVars, vmVars, readVars, annVars, mongoVars, timeVars>>

\* a.vm = newViewManager(...); a.qp = querylang.NewQueryProcessor()
NAViewManager ==
    /\ NewAt("vm")
    /\ NewGoto("pool")
    /\ setup' = setup \cup {"vm"}
    /\ UNCHANGED <<failed, exitCode, qlog>>
    /\ UNCHANGED <<prefixVars, tsVars, goVars, srvVars, vmVars, readVars, annVars, mongoVars, timeVars>>

\* queryClient := bw2.ConnectOrExit(...); ...; queryClient.Subscribe (its
\* error is logged); common.NewWorkerPool(queryChan, a.listenQueries, 1000).Start()
NAQueryPool ==
    /\ NewAt("pool")
    /\ \E ok \in BOOLEAN :
         IF ok
         THEN /\ NewGoto("returned")
              /\ setup' = setup \cup {"pool"}
              /\ UNCHANGED <<failed, exitCode, qlog>>
         ELSE Fatal("queryclient")
    /\ UNCHANGED <<prefixVars, tsVars, goVars, srvVars, vmVars, readVars, annVars, mongoVars, timeVars>>

---------------------------------------------------------------------------
(* listenQueries and HandleQuery *)

\* the sender keys of inbound messages (msg.From), as strings of characters
Senders == { <<>>, <<"k", "1", "=">>, <<"k", "2", "=">> }

\* what GetOnePODF(PODFGilesKeyValueQuery) finds in a message: no such
\* payload object, one that is not msgpack, a msgpack one whose body does not
\* decode into a KeyValueQuery, a msgpack one that decodes
POKinds == {"none", "notmsgpack", "undecodable", "query"}

\* the query strings sent, one per variant of the language and one that does not parse
Queries == {"", "garbage", "select", "select distinct", "data in", "data before",
            "data after", "statistical", "window", "changed", "delete"}

Nonces == {7, 8}

\* the zero value of KeyValueQuery
ZeroQuery == [Query |-> "", Nonce |-> 0]

\* the fields of the parse tree that HandleQuery reads
Tree(e, qt, distinct, stat, win, chg, dt) ==
    [Err |-> e, QueryType |-> qt, Distinct |-> distinct, IsStatistical |-> stat,
     IsWindow |-> win, IsChangedRanges |-> chg, Dtype |-> dt]

\* a.qp.Parse(query): the parser is outside the archiver; each query string
\* stands for one variant of the language, and the empty string, like
\* "garbage", is no query of the language
ParseTrees(query) ==
    CASE query = "select"          -> { Tree(FALSE, "SELECT_TYPE", FALSE, FALSE, FALSE, FALSE, "none") }
      [] query = "select distinct" -> { Tree(FALSE, "SELECT_TYPE", TRUE, FALSE, FALSE, FALSE, "none") }
      [] query = "data in"         -> { Tree(FALSE, "DATA_TYPE", FALSE, FALSE, FALSE, FALSE, "IN_TYPE") }
      [] query = "data before"     -> { Tree(FALSE, "DATA_TYPE", FALSE, FALSE, FALSE, FALSE, "BEFORE_TYPE") }
      [] query = "data after"      -> { Tree(FALSE, "DATA_TYPE", FALSE, FALSE, FALSE, FALSE, "AFTER_TYPE") }
      [] query = "statistical"     -> { Tree(FALSE, "DATA_TYPE", FALSE, TRUE, FALSE, FALSE, "IN_TYPE") }
      [] query = "window"          -> { Tree(FALSE, "DATA_TYPE", FALSE, FALSE, TRUE, FALSE, "IN_TYPE") }
      [] query = "changed"         -> { Tree(FALSE, "DATA_TYPE", FALSE, FALSE, FALSE, TRUE, "IN_TYPE") }
      [] query = "delete"          -> { Tree(FALSE, "DELETE_TYPE", FALSE, FALSE, FALSE, FALSE, "none") }
      [] OTHER                     -> { Tree(TRUE, "none", FALSE, FALSE, FALSE, FALSE, "none") }

\* how the evaluator of a variant ends: an error with no results, an error
\* with results, no results, results
EvalOutcomes == {"err", "partial", "empty", "some"}

ParseErr == <<"Error in query">>
EvalErr == <<"evaluator error">>
EvalError(eo) == IF eo \in {"err", "partial"} THEN EvalErr ELSE Nil
EvalCount(eo) == IF eo \in {"partial", "some"} THEN 1 ELSE 0

\* no requester key among an evaluator's arguments
NoKey == <<"no key">>

\* HandleQuery's return values, with the evaluator it called and the key it gave it
Handled(md, ts, stats, changed, e, evaluator, key) ==
    [md |-> md, ts |-> ts, stats |-> stats, changed |-> changed, err |-> e,
     evaluator |-> evaluator, key |-> key]

NotHandled == Handled(0, 0, 0, 0, Nil, "not called", NoKey)

\* HandleQuery with every data variant's results returned as timeseries
HandleQuery_AllTimeseries(vk, parsed, eo) ==
    IF parsed.Err THEN Handled(0, 0, 0, 0, ParseErr, "none", NoKey)
    ELSE IF parsed.QueryType = "SELECT_TYPE"
    THEN IF parsed.Distinct
         THEN Handled(1, 0, 0, 0, EvalError(eo), "DistinctTag", vk)
         ELSE Handled(EvalCount(eo), 0, 0, 0, EvalError(eo), "SelectTags", vk)
    ELSE IF parsed.QueryType = "DATA_TYPE"
    THEN Handled(0, EvalCount(eo), 0, 0, EvalError(eo), "SelectDataRange", vk)
    ELSE Handled(0, 0, 0, 0, Nil, "none", NoKey)

\* mdResult, tsResult, statsResult, changedResult, err of a.HandleQuery(vk, query)
HandleQuery(vk, parsed, eo) ==
    IF parsed.Err THEN Handled(0, 0, 0, 0, ParseErr, "none", NoKey)
    ELSE IF parsed.QueryType = "SELECT_TYPE"
    THEN IF parsed.Distinct
         THEN Handled(1, 0, 0, 0, EvalError(eo), "DistinctTag", vk)
         ELSE Handled(EvalCount(eo), 0, 0, 0, EvalError(eo), "SelectTags", vk)
    ELSE IF parsed.QueryType = "DATA_TYPE"
    THEN IF parsed.IsStatistical \/ parsed.IsWindow
         THEN Handled(0, 0, EvalCount(eo), 0, EvalError(eo), "SelectStatisticalData", vk)
         ELSE IF parsed.IsChangedRanges
         THEN Handled(0, 0, 0, EvalCount(eo), EvalError(eo), "GetChangedRanges", NoKey)
         ELSE IF parsed.Dtype = "IN_TYPE"
         THEN Handled(0, EvalCount(eo), 0, 0, EvalError(eo), "SelectDataRange", vk)
         ELSE IF parsed.Dtype = "BEFORE_TYPE"
         THEN Handled(0, EvalCount(eo), 0, 0, EvalError(eo), "SelectDataBefore", vk)
         ELSE IF parsed.Dtype = "AFTER_TYPE"
         THEN Handled(0, EvalCount(eo), 0, 0, EvalError(eo), "SelectDataAfter", vk)
         ELSE Handled(0, 0, 0, 0, Nil, "none", NoKey)
    ELSE Handled(0, 0, 0, 0, Nil, "none", NoKey)

\* a payload object of a reply
PO(type, nonce, query, e, n) ==
    [type |-> type, nonce |-> nonce, query |-> query, error |-> e, n |-> n]

\* QueryErrorPO with the Nonce field left at its zero value
QueryErrorPO_NoNonce(query, e) == PO("QueryError", 0, query.Query, e, 0)

\* QueryError{Query: query.Query, Nonce: query.Nonce, Error: err.Error()}
QueryErrorPO(query, e) == PO("QueryError", query.Nonce, query.Query, e, 0)

\* signalURI = fmt.Sprintf("%s,queries", fromVK[:len(fromVK)-1])
SignalURI(fromVK) == SubSeq(fromVK, 1, Len(fromVK) - 1) \o <<",queries">>

\* ErrorReply with the metadata HandleQuery returned beside its error sent too
ErrorReply_WithMetadata(query, r) ==
    << QueryErrorPO(query, r.err), PO("Metadata", query.Nonce, "", Nil, r.md) >>

\* the payload objects listenQueries publishes when HandleQuery returned an error
ErrorReply(query, r) == << QueryErrorPO(query, r.err) >>

\* Reply with no payload put in for a query that has no results
Reply_NoFallback(query, r) ==
    LET md == IF r.md > 0 THEN << PO("Metadata", query.Nonce, "", Nil, r.md) >> ELSE <<>>
        ts == IF r.ts + r.stats > 0
              THEN << PO("Timeseries", query.Nonce, "", Nil, r.ts + r.stats) >> ELSE <<>>
        ch == IF r.changed > 0 THEN << PO("Changed", query.Nonce, "", Nil, r.changed) >> ELSE <<>>
    IN  md \o ts \o ch

\* the reply assembled from HandleQuery's results
Reply(query, r) ==
    LET md == IF r.md > 0 THEN << PO("Metadata", query.Nonce, "", Nil, r.md) >> ELSE <<>>
        ts == IF r.ts + r.stats > 0
              THEN << PO("Timeseries", query.Nonce, "", Nil, r.ts + r.stats) >> ELSE <<>>
        ch == IF r.changed > 0 THEN << PO("Changed", query.Nonce, "", Nil, r.changed) >> ELSE <<>>
        reply == md \o ts \o ch
    IN  IF Len(reply) = 0 THEN << PO("Metadata", query.Nonce, "", Nil, r.md) >> ELSE reply

\* whether listenQueries returns after a msgpack body failed to decode
ReturnsUndecoded == TRUE

\* what listenQueries did with a message
Did(msg, query, outcome, hq, publishes) ==
    [msg |-> msg, query |-> query, outcome |-> outcome, hq |-> hq,
     publishes |-> publishes]

NoMsg == [from |-> <<>>, po |-> "none", query |-> "", nonce |-> 0]
NothingDone == Did(NoMsg, ZeroQuery, "none", NotHandled, <<>>)

\* the query listenQueries goes on with
Decoded(msg) ==
    IF msg.po = "query" THEN [Query |-> msg.query, Nonce |-> msg.nonce] ELSE ZeroQuery

\* listenQueries(msg), with the tree the parser makes of the query string and
\* the way the evaluator ends
listenQueries(msg, parsed, eo) ==
    LET query == Decoded(msg)
        r == HandleQuery(msg.from, parsed, eo)
        uri == SignalURI(msg.from)
    IN  IF msg.po = "none" THEN Did(msg, ZeroQuery, "ignored", NotHandled, <<>>)
        ELSE IF msg.po = "undecodable" /\ ReturnsUndecoded
        THEN Did(msg, ZeroQuery, "dropped", NotHandled, <<>>)
        ELSE IF Len(msg.from) = 0
        THEN Did(msg, query, "panic", NotHandled, <<>>)
        ELSE IF r.err # Nil
        THEN Did(msg, query, "error", r, << [uri |-> uri, pos |-> ErrorReply(query, r)] >>)
        ELSE Did(msg, query, "reply", r, << [uri |-> uri, pos |-> Reply(query, r)] >>)

\* a worker of the pool takes a message off the query subscription
ListenQueries(msg) ==
    /\ newPc.at = "returned"
    /\ exitCode = Running
    /\ \E parsed \in ParseTrees(Decoded(msg).Query), eo \in EvalOutcomes :
         qlog' = listenQueries(msg, parsed, eo)
    /\ UNCHANGED <<newPc, failed, setup, exitCode>>
    /\ UNCHANGED <<prefixVars, tsVars, goVars, srvVars, vmVars, readVars, annVars, mongoVars, timeVars>>

InitArchiver ==
    /\ newPc = [at |-> "resolve", i |-> 0]
    /\ failed = {}
    /\ setup = {}
    /\ exitCode = Running
    /\ qlog = NothingDone

---------------------------------------------------------------------------
(* AddAnnotations *)

\* the most annotation versions of a stream a run goes through
MaxVersion == 2

\* the updates given to AddAnnotations: maps whose values are strings, and
\* one that holds a value that is no string
Updates == {"x", "y", "number"}

\* the error the engine answers a compare-and-set given a stale version with
ErrConflict == <<"annotation version mismatch">>

NoAnn == [update |-> "none", ver |-> 0, read |-> FALSE, applied |-> FALSE]

InitAnnotations ==
    /\ ann = [u \in UUIDs |-> [ver |-> 0, val |-> "none"]]
    /\ an = [w \in Workers |-> NoAnn]

\* bdb.AddAnnotations(u, updates); it first calls bdb.uuidsToStreams(uuid)
CallAddAnnotations(w, u, updates) ==
    /\ At(w, "idle")
    /\ ann[u].ver < MaxVersion
    /\ Enter(w, "AddAnnotations", "uuidsToStreams", NoUUID, "u2s_loop", Background)
    /\ rd' = [rd EXCEPT ![w] = NewRead("AddAnnotations", <<u>>)]
    /\ an' = [an EXCEPT ![w] = [NoAnn EXCEPT !.update = updates]]
    /\ UNCHANGED ann
    /\ UNCHANGED <<tsVars, prefixVars, srvVars, vmVars, archVars, mongoVars, timeVars>>

\* the context AddAnnotations gives its two engine calls
AddAnnotationsCtx == WithTimeout(Background, timeout)

\* for _, stream := range streams { ctx, cancel := context.WithTimeout(...);
\* for k, v := range updates { vs := v.(string); ... } ... }; return nil.
\* The type assertion panics on a value that is no string.
AddAnnotationsLoop(w) ==
    /\ At(w, "aa_loop")
    /\ IF Len(rd[w].streams) = 0
       THEN /\ ret' = [ret EXCEPT ![w] = [exists |-> FALSE, err |-> Nil]]
            /\ Goto(w, "aa_done")
            /\ UNCHANGED ctx
       ELSE /\ ctx' = [ctx EXCEPT ![w] = AddAnnotationsCtx]
            /\ Goto(w, IF an[w].update = "number" THEN "panicked" ELSE "aa_read")
            /\ UNCHANGED ret
    /\ UNCHANGED <<op, call, arg, err, how>>
    /\ UNCHANGED <<tsVars, prefixVars, srvVars, vmVars, archVars, readVars, annVars,
                   mongoVars, timeVars>>

\* _, ver, err := stream.Annotations(ctx); if err != nil { return err }
AddAnnotationsRead(w) ==
    /\ At(w, "aa_read")
    /\ \E io \in EngineOutcomes :
          IF io = "fail"
          THEN /\ ret' = [ret EXCEPT ![w] = [exists |-> FALSE, err |-> EngineErr]]
               /\ Goto(w, "aa_done")
               /\ UNCHANGED an
          ELSE /\ an' = [an EXCEPT ![w].ver = ann[rd[w].streams[1]].ver, ![w].read = TRUE]
               /\ Goto(w, "aa_cas")
               /\ UNCHANGED ret
    /\ UNCHANGED <<op, call, arg, err, how, ctx>>
    /\ UNCHANGED ann
    /\ UNCHANGED <<tsVars, prefixVars, srvVars, vmVars, archVars, readVars, mongoVars,
                   timeVars>>

\* whether the engine applies a compare-and-set: the version given is the
\* stream's current annotation version
CompareAndSetApplies(ver, current, io) == io = "ok" /\ ver = current

\* AddAnnotationsReturn with the compare-and-set's error dropped
AddAnnotationsReturn_DropsErr(casErr) == Nil

\* return stream.CompareAndSetAnnotation(ctx, ver, annotations): the engine's
\* answer is the method's return value, there is no second attempt
AddAnnotationsReturn(casErr) == casErr

AddAnnotationsCompareAndSet(w) ==
    /\ At(w, "aa_cas")
    /\ \E io \in EngineOutcomes :
          LET u == rd[w].streams[1]
              applies == CompareAndSetApplies(an[w].ver, ann[u].ver, io)
              casErr == IF applies THEN Nil
                        ELSE IF io = "fail" THEN EngineErr ELSE ErrConflict
          IN  /\ ann' = IF applies
                        THEN [ann EXCEPT ![u] = [ver |-> @.ver + 1, val |-> an[w].update]]
                        ELSE ann
              /\ an' = [an EXCEPT ![w].applied = applies]
              /\ ret' = [ret EXCEPT ![w] =
                            [exists |-> FALSE, err |-> AddAnnotationsReturn(casErr)]]
    /\ Goto(w, "aa_done")
    /\ UNCHANGED <<op, call, arg, err, how, ctx>>
    /\ UNCHANGED <<tsVars, prefixVars, srvVars, vmVars, archVars, readVars, mongoVars,
                   timeVars>>

\* the caller takes the error and is free for its next call
AddAnnotationsDone(w) ==
    /\ At(w, "aa_done")
    /\ Enter(w, "none", "none", NoUUID, "idle", Background)
    /\ rd' = [rd EXCEPT ![w] = NoRead]
    /\ an' = [an EXCEPT ![w] = NoAnn]
    /\ UNCHANGED ann
    /\ UNCHANGED <<tsVars, prefixVars, srvVars, vmVars, archVars, mongoVars, timeVars>>

---------------------------------------------------------------------------
(* Metadata store: SaveMetadata *)

\* the (Key, SrcURI) pairs and the values of the records saved
MdPairs == { <<"k1", "a">>, <<"k1", "b">>, <<"k2", "a">> }
MdValues == {"v1", "v2"}

\* common.MetadataRecord, the fields the store reads
MetadataRecords ==
    { [Key |-> p[1], SrcURI |-> p[2], Value |-> v] : p \in MdPairs, v \in MdValues }

\* the record lists given to SaveMetadata
RecordLists ==
    { <<>> } \cup { <<r>> : r \in MetadataRecords }
        \cup { <<r, q>> : r, q \in MetadataRecords }

MongoErr == <<"mongo error">>

NoSave == [records |-> <<>>, n |-> 0, err |-> Nil]

InitMongo ==
    /\ metadata = <<>>
    /\ saveRet = NoSave

\* UpsertSelector with the documents selected by Key alone
UpsertSelector_KeyOnly(rec) == [Key |-> rec.Key]

\* bson.M{"Key": rec.Key, "SrcURI": rec.SrcURI}
UpsertSelector(rec) == [Key |-> rec.Key, SrcURI |-> rec.SrcURI]

\* whether a document matches a selector: it agrees on every field of it
Selects(selector, doc) == \A f \in DOMAIN selector : doc[f] = selector[f]

\* m.metadata.Upsert(selector, rec): the first document the selector selects
\* is replaced by rec; when it selects none, rec is inserted
Upsert(coll, selector, rec) ==
    IF \E i \in 1..Len(coll) : Selects(selector, coll[i])
    THEN LET i == CHOOSE i \in 1..Len(coll) :
                     /\ Selects(selector, coll[i])
                     /\ \A j \in 1..(i - 1) : ~Selects(selector, coll[j])
         IN  [coll EXCEPT ![i] = rec]
    ELSE Append(coll, rec)

\* for _, rec := range records { Upsert(...) }, the first n records
RECURSIVE UpsertAll(_, _, _, _)
UpsertAll(coll, records, i, n) ==
    IF i > n THEN coll
    ELSE UpsertAll(Upsert(coll, UpsertSelector(records[i]), records[i]), records, i + 1, n)

\* m.SaveMetadata(records): with no records it returns nil at once; else it
\* upserts record after record and returns at the first Upsert that fails
\* (failAt, 0 when none does), nil after the last
SaveMetadata(records, failAt) ==
    /\ failAt \in 0..Len(records)
    /\ LET n == IF failAt = 0 THEN Len(records) ELSE failAt - 1
       IN  /\ metadata' = UpsertAll(metadata, records, 1, n)
           /\ saveRet' = [records |-> records, n |-> n,
                          err |-> IF failAt = 0 THEN Nil ELSE MongoErr]
    /\ UNCHANGED <<prefixVars, tsVars, goVars, srvVars, vmVars, archVars, readVars,
                   annVars, timeVars>>

---------------------------------------------------------------------------
(* ValidTimestamp *)

\* common.UnitOfTime, and the nanoseconds in one unit of each
UnitsOfTime == {"UOT_NS", "UOT_US", "UOT_MS", "UOT_S"}
NsPer(uot) ==
    CASE uot = "UOT_NS" -> 1
      [] uot = "UOT_US" -> 1000
      [] uot = "UOT_MS" -> 1000000
      [] uot = "UOT_S"  -> 1000000000

\* the largest timestamp the engine takes, scaled to the model's integers
MaximumTime == 1000000000

\* how common.ConvertTime ends: with the converted time, or with an error
\* beside a zero time or beside the time it was given
ConvertOutcomes == {"ok", "fail zero", "fail same"}

ConvertErr == <<"conversion error">>

\* common.ConvertTime(time, uot, common.UOT_NS)
ConvertTime(time, uot, conv) ==
    IF conv = "ok" THEN [time |-> time * NsPer(uot), err |-> Nil]
    ELSE IF conv = "fail zero" THEN [time |-> 0, err |-> ConvertErr]
    ELSE [time |-> time, err |-> ConvertErr]

\* ValidTimestamp with the conversion's error left out of the test
ValidTimestamp_IgnoresErr(time, uot, conv) ==
    LET c == IF uot # "UOT_NS" THEN ConvertTime(time, uot, conv)
             ELSE [time |-> time, err |-> Nil]
    IN  c.time >= 0 /\ c.time <= MaximumTime

\* if uot != common.UOT_NS { time, err = common.ConvertTime(...) };
\* return time >= 0 && time <= MaximumTime && err == nil
ValidTimestamp(time, uot, conv) ==
    LET c == IF uot # "UOT_NS" THEN ConvertTime(time, uot, conv)
             ELSE [time |-> time, err |-> Nil]
    IN  c.time >= 0 /\ c.time <= MaximumTime /\ c.err = Nil

\* the timestamps given in unit uot: those around zero and those around the
\* largest one that converts to no more than MaximumTime
TimesIn(uot) ==
    LET top == MaximumTime \div NsPer(uot)
    IN  (-2..2) \cup ((top - 2)..(top + 1))

NoTime == [time |-> 0, uot |-> "UOT_NS", conv |-> "ok", asked |-> FALSE, valid |-> FALSE]

\* the calls of ValidTimestamp that can be made
TimeInputs ==
    UNION { { [time |-> t, uot |-> u, conv |-> c, asked |-> FALSE, valid |-> FALSE] :
                t \in TimesIn(u), c \in ConvertOutcomes } : u \in UnitsOfTime }

\* bdb.ValidTimestamp(time, uot)
CallValidTimestamp ==
    /\ ~vt.asked
    /\ vt' = [vt EXCEPT !.asked = TRUE,
                        !.valid = ValidTimestamp(vt.time, vt.uot, vt.conv)]
    /\ UNCHANGED <<prefixVars, tsVars, goVars, srvVars, vmVars, archVars, readVars,
                   annVars, mongoVars>>

---------------------------------------------------------------------------
(* Specifications *)

Init ==
    /\ mdB = <<>>
    /\ tsB = <<>>
    /\ tsSeq = 0
    /\ uuidB = <<>>
    /\ res = NoRes
    /\ streamCache = {}
    /\ engStreams = {}
    /\ engWritten = {}
    /\ currentWrites = 0
    /\ completedWrites = 0
    /\ connected = TRUE
    /\ pc = [w \in Workers |-> "idle"]
    /\ op = [w \in Workers |-> "none"]
    /\ call = [w \in Workers |-> "none"]
    /\ arg = [w \in Workers |-> NoUUID]
    /\ err = [w \in Workers |-> Nil]
    /\ ret = [w \in Workers |-> NoRet]
    /\ how = [w \in Workers |-> "none"]
    /\ ctx = [w \in Workers |-> Background]
    /\ servePc = "recv"
    /\ cancelled = FALSE
    /\ sigPc = "wait"
    /\ stopPc = [c \in StopCallers |-> "idle"]
    /\ seen = {}
    /\ InitArchiver
    /\ InitReaders
    /\ InitAnnotations
    /\ InitMongo
    /\ vt = NoTime

\* a write of the prefix index by any caller, within the bound
PutMetadataURI(uri) ==
    /\ NumPuts < MaxPuts
    /\ AddMetadataURI(uri)
    /\ res' = NoRes
    /\ UNCHANGED <<tsVars, goVars, srvVars, vmVars, archVars, readVars, annVars, mongoVars, timeVars>>

PutTimeseriesURI(uri) ==
    /\ NumPuts < MaxPuts
    /\ AddTimeseriesURI(uri)
    /\ res' = [op |-> "AddTimeseriesURI", arg |-> uri, out |-> <<>>, diverges |-> FALSE]
    /\ UNCHANGED <<tsVars, goVars, srvVars, vmVars, archVars, readVars, annVars, mongoVars, timeVars>>

PutUUIDURIMapping(uri, uuid) ==
    /\ NumPuts < MaxPuts
    /\ AddUUIDURIMapping(uri, uuid)
    /\ res' = NoRes
    /\ UNCHANGED <<tsVars, goVars, srvVars, vmVars, archVars, readVars, annVars, mongoVars, timeVars>>

\* the prefix index on its own, under any sequence of its operations
PrefixNext ==
    \/ \E uri \in URIs : PutMetadataURI(uri)
    \/ \E uri \in URIs : PutTimeseriesURI(uri)
    \/ \E uri \in URIs, uuid \in UUIDs : PutUUIDURIMapping(uri, uuid)
    \/ \E prefix \in URIs : CallGetMetadataSuperstrings(prefix)
    \/ \E prefix \in URIs : CallGetTimeseriesSuperstrings(prefix)
    \/ \E uri \in URIs : CallGetUUIDsFromURI(uri)

SpecPrefix == Init /\ [][PrefixNext]_vars

\* the steps inside the adapter's methods
AdapterStep(w) ==
    \/ GetStreamCache(w)
    \/ GetStreamExists(w)
    \/ GetStreamInstall(w)
    \/ StreamExistsReturn(w)
    \/ CreateStreamCreate(w)
    \/ CreateStreamInstall(w)
    \/ RegisterStreamReturn(w)
    \/ AddReadingsEnter(w)
    \/ AddReadingsInsert(w)
    \/ AddReadingsRelease(w)
    \/ AddReadingsComplete(w)
    \/ Return(w)

\* the adapter under any callers, with the report goroutine
TSNext ==
    \/ \E w \in Workers, u \in UUIDs : CallAddReadings(w, u)
    \/ \E w \in Workers, u \in UUIDs : CallStreamExists(w, u)
    \/ \E w \in Workers, u \in UUIDs : CallRegisterStream(w, u)
    \/ \E w \in Workers : AdapterStep(w)
    \/ Report

SpecTS == Init /\ [][TSNext]_vars

ServeStep ==
    \/ Signal
    \/ \E c \in StopCallers : CallStop(c)
    \/ ServeRecvSignal
    \/ \E c \in StopCallers : ServeRecvStop(c)
    \/ ServeCancel
    \/ Disconnect

\* the archiver started against an engine that holds the streams already
InitServe ==
    /\ mdB = <<>>
    /\ tsB = <<>>
    /\ tsSeq = 0
    /\ uuidB = <<>>
    /\ res = NoRes
    /\ streamCache = {}
    /\ engStreams = UUIDs
    /\ engWritten = {}
    /\ currentWrites = 0
    /\ completedWrites = 0
    /\ connected = TRUE
    /\ pc = [w \in Workers |-> "idle"]
    /\ op = [w \in Workers |-> "none"]
    /\ call = [w \in Workers |-> "none"]
    /\ arg = [w \in Workers |-> NoUUID]
    /\ err = [w \in Workers |-> Nil]
    /\ ret = [w \in Workers |-> NoRet]
    /\ how = [w \in Workers |-> "none"]
    /\ ctx = [w \in Workers |-> Background]
    /\ servePc = "recv"
    /\ cancelled = FALSE
    /\ sigPc = "wait"
    /\ stopPc = [c \in StopCallers |-> "idle"]
    /\ seen = {}
    /\ InitArchiver
    /\ InitReaders
    /\ InitAnnotations
    /\ InitMongo
    /\ vt = NoTime

\* writers of readings while Serve runs and is stopped
ServeNext ==
    \/ \E w \in Workers, u \in UUIDs : CallAddReadings(w, u)
    \/ \E w \in Workers : GetStreamCache(w)
    \/ \E w \in Workers : GetStreamExists(w)
    \/ \E w \in Workers : GetStreamInstall(w)
    \/ \E w \in Workers : AddReadingsEnter(w)
    \/ \E w \in Workers : AddReadingsInsert(w)
    \/ \E w \in Workers : AddReadingsRelease(w)
    \/ \E w \in Workers : AddReadingsComplete(w)
    \/ \E w \in Workers : Return(w)
    \/ ServeStep
    \/ Report

SpecServe == InitServe /\ [][ServeNext]_vars

\* ingestion: the view manager is the adapter's only caller
VMNext ==
    \/ \E w \in Workers, u \in UUIDs : Ingest(w, u)
    \/ \E w \in Workers : VMAddTimeseriesURI(w)
    \/ \E w \in Workers : VMAddUUID(w)
    \/ \E w \in Workers : VMChecked(w)
    \/ \E w \in Workers : VMRegistered(w)
    \/ \E w \in Workers : AdapterStep(w)

SpecVM == Init /\ [][VMNext]_vars

\* the messages the query subscription can deliver: with a query that decodes,
\* or with a payload object that yields none
Messages ==
    [from : Senders, po : {"query"}, query : Queries, nonce : Nonces]
    \cup [from : Senders, po : POKinds \ {"query"}, query : {""}, nonce : {0}]

\* the archiver's start-up, then its query workers
QueryNext ==
    \/ NAResolve
    \/ NAMongoDial
    \/ NAAddIndex
    \/ NABtrdbConnect
    \/ NACheckTS
    \/ NAFabric
    \/ NAExpiry
    \/ NAViewManager
    \/ NAQueryPool
    \/ \E msg \in Messages : ListenQueries(msg)

SpecQuery == Init /\ [][QueryNext]_vars

\* a goroutine reads while another registers streams
ReadNext ==
    \/ \E w \in Readers, o \in ListReads \cup UUIDReads :
          \E uuids \in UUIDLists(o) : CallRead(w, o, uuids)
    \/ \E w \in Readers : UUIDsToStreamsLoop(w)
    \/ \E w \in Readers : UUIDsToStreamsReturn(w)
    \/ \E w \in Readers : ReadLoop(w)
    \/ \E w \in Readers : ReadOpen(w)
    \/ \E w \in Readers : ReadRange(w)
    \/ \E w \in Readers : ReadGeneration(w)
    \/ \E w \in Readers : ReadError(w)
    \/ \E w \in Readers : ReadReturn(w)
    \/ \E w \in Workers : GetStreamCache(w)
    \/ \E w \in Workers : GetStreamExists(w)
    \/ \E w \in Workers : GetStreamInstall(w)
    \/ \E w \in Workers \ Readers, u \in UUIDs : CallRegisterStream(w, u)
    \/ \E w \in Workers : CreateStreamCreate(w)
    \/ \E w \in Workers : CreateStreamInstall(w)
    \/ \E w \in Workers : RegisterStreamReturn(w)
    \/ \E w \in Workers : Return(w)

SpecRead == Init /\ [][ReadNext]_vars

\* two goroutines annotate the streams of an engine that holds them already
AnnNext ==
    \/ \E w \in Workers, u \in UUIDs, updates \in Updates : CallAddAnnotations(w, u, updates)
    \/ \E w \in Workers : UUIDsToStreamsLoop(w)
    \/ \E w \in Workers : GetStreamCache(w)
    \/ \E w \in Workers : GetStreamExists(w)
    \/ \E w \in Workers : GetStreamInstall(w)
    \/ \E w \in Workers : UUIDsToStreamsReturn(w)
    \/ \E w \in Workers : AddAnnotationsLoop(w)
    \/ \E w \in Workers : AddAnnotationsRead(w)
    \/ \E w \in Workers : AddAnnotationsCompareAndSet(w)
    \/ \E w \in Workers : AddAnnotationsDone(w)

SpecAnn == InitServe /\ [][AnnNext]_vars

\* the metadata store under any sequence of SaveMetadata calls
MongoNext ==
    \E records \in RecordLists, failAt \in 0..2 : SaveMetadata(records, failAt)

SpecMongo == Init /\ [][MongoNext]_vars

\* ValidTimestamp applied to each of its inputs
InitTime ==
    /\ mdB = <<>>
    /\ tsB = <<>>
    /\ tsSeq = 0
    /\ uuidB = <<>>
    /\ res = NoRes
    /\ streamCache = {}
    /\ engStreams = {}
    /\ engWritten = {}
    /\ currentWrites = 0
    /\ completedWrites = 0
    /\ connected = TRUE
    /\ pc = [w \in Workers |-> "idle"]
    /\ op = [w \in Workers |-> "none"]
    /\ call = [w \in Workers |-> "none"]
    /\ arg = [w \in Workers |-> NoUUID]
    /\ err = [w \in Workers |-> Nil]
    /\ ret = [w \in Workers |-> NoRet]
    /\ how = [w \in Workers |-> "none"]
    /\ ctx = [w \in Workers |-> Background]
    /\ servePc = "recv"
    /\ cancelled = FALSE
    /\ sigPc = "wait"
    /\ stopPc = [c \in StopCallers |-> "idle"]
    /\ seen = {}
    /\ InitArchiver
    /\ InitReaders
    /\ InitAnnotations
    /\ InitMongo
    /\ vt \in TimeInputs

TimeNext == CallValidTimestamp

SpecTime == InitTime /\ [][TimeNext]_vars

---------------------------------------------------------------------------
(* Claims about the prefix index *)

\* the UUIDs registered under a URI in the URI -> UUID bucket
RegisteredUnder(uri) == IF uri \in DOMAIN uuidB THEN Range(uuidB[uri]) ELSE {}

\* the stored timeseries URIs that have prefix as a prefix
TimeseriesWithPrefix(prefix) == { t \in DOMAIN tsB : HasPrefix(t, prefix) }

\* C1: whenever GetUUIDsFromURI(uri) returns, the list it returns holds
\* exactly the UUIDs registered under the timeseries URIs that have uri as a
\* prefix, also when one of those URIs has no UUID sub-bucket.
C1_UUIDsForIsTheUnion ==
    (res.op = "GetUUIDsFromURI" /\ ~res.diverges) =>
        Range(res.out) = UNION { RegisteredUnder(t) : t \in TimeseriesWithPrefix(res.arg) }

\* C2: whenever GetMetadataSuperstrings(prefix) returns, it returns all and
\* only the stored metadata URIs that have prefix as a prefix.
C2_MetadataSuperstringsAreTheStoredURIs ==
    (res.op = "GetMetadataSuperstrings" /\ ~res.diverges) =>
        Range(res.out) = { u \in Range(mdB) : HasPrefix(u, res.arg) }

\* C4, as claimed: every URI in the timeseries-URI set has a sub-bucket with
\* at least one UUID in the URI -> UUID bucket.
C4_EveryTimeseriesURIHasUUIDs ==
    \A u \in DOMAIN tsB : u \in DOMAIN uuidB /\ Len(uuidB[u]) >= 1

\* C4, amended: every URI in the timeseries-URI set that has a sub-bucket in
\* the URI -> UUID bucket has at least one UUID in it (AddUUIDForURI makes the
\* sub-bucket and puts the UUID in one transaction; AddTimeseriesURI makes no
\* sub-bucket).
C4_SubBucketsHoldAUUID ==
    \A u \in DOMAIN tsB : u \in DOMAIN uuidB => Len(uuidB[u]) >= 1

\* a timeseries URI with a registered UUID beside one with none
C4_Witness ==
    \E u, v \in DOMAIN tsB : u \in DOMAIN uuidB /\ v \notin DOMAIN uuidB

\* C16: AddMetadataURI(u) for a URI that is stored already leaves the
\* metadata bucket as it was: the bucket never holds two entries for one URI.
C16_MetadataURIStoredOnce ==
    \A i, j \in 1..Len(mdB) : mdB[i] = mdB[j] => i = j

\* C17: GetTimeseriesSuperstrings(prefix) returns, and what it returns is the
\* stored timeseries URIs that have prefix as a prefix, each once, in key order.
C17_TimeseriesSuperstringsAreTheStoredURIs ==
    res.op = "GetTimeseriesSuperstrings" =>
        /\ ~res.diverges
        /\ res.out = SortedKeys(TimeseriesWithPrefix(res.arg))

\* C17 for the prefixes that are not empty: what holds of the code
C17_TimeseriesSuperstringsOfNonEmptyPrefix ==
    (res.op = "GetTimeseriesSuperstrings" /\ res.arg # <<>>) =>
        /\ ~res.diverges
        /\ res.out = SortedKeys(TimeseriesWithPrefix(res.arg))

---------------------------------------------------------------------------
(* Claims about ingestion *)

\* every prefix of a byte string, the empty one and the string itself included
PrefixesOf(U) == { SubSeq(U, 1, n) : n \in 0..Len(U) }

\* stream u's URI is found by the scan for prefix p
FoundUnder(u, p) ==
    LET r == GetTimeseriesSuperstrings(p)
    IN  ~r.diverges /\ StreamURI(u) \in Range(r.matching)

\* stream u has its registration in the URI -> UUID bucket
Registered(u) ==
    /\ u \in RegisteredUnder(StreamURI(u))
    /\ LET r == GetUUIDsFromURI(StreamURI(u)) IN ~r.diverges /\ r.found # {}

\* C3: for every stream with a committed reading, the stream's URI U is in
\* TimeseriesSuperstrings(p) for every prefix p of U, UUIDsFor(U) is not
\* empty and the stream's UUID is registered under U.
C3_CommittedStreamsAreIndexed ==
    \A u \in engWritten :
        /\ \A p \in PrefixesOf(StreamURI(u)) : FoundUnder(u, p)
        /\ Registered(u)

\* C3 without the empty prefix: what holds of the code
C3_CommittedStreamsAreIndexedUnderNonEmptyPrefixes ==
    \A u \in engWritten :
        /\ \A p \in PrefixesOf(StreamURI(u)) \ {<<>>} : FoundUnder(u, p)
        /\ Registered(u)

---------------------------------------------------------------------------
(* Claims about the timeseries adapter *)

\* C5: a call of AddReadings adds one to completedWrites exactly when it
\* returns no error; a call that returns an error (of the lookup or of the
\* insert) leaves completedWrites as it was.
C5_CompletedCountsSuccessfulWrites ==
    [][ \A w \in Workers :
          (call[w] = "AddReadings" /\ pc[w] # "done" /\ pc'[w] = "done") =>
              completedWrites' =
                  completedWrites + (IF ret'[w].err = Nil THEN 1 ELSE 0) ]_vars

\* the calls of AddReadings that stand between their increment and their release
InFlightWrites == { w \in Workers : pc[w] \in {"ar_insert", "ar_release"} }

\* C6: currentWrites is never negative and equals the number of AddReadings
\* calls between their increment and their release, whatever way they end.
C6_CurrentWritesCountsInFlight ==
    /\ currentWrites >= 0
    /\ currentWrites = Cardinality(InFlightWrites)

\* two writes in flight at once, one of them with a failed insert
C6_Witness ==
    /\ currentWrites = 2
    /\ \E w \in Workers : pc[w] = "ar_release" /\ err[w] # Nil

\* C7: Serve calls Disconnect after it has cancelled the context and only
\* when no AddReadings write is in flight.
C7_DisconnectAfterWritesDrain ==
    [][ (servePc = "disconnect" /\ servePc' = "returned") =>
            (cancelled /\ currentWrites = 0) ]_vars

\* the places where a goroutine is about to make its engine call
EngineCallPoints == {"gs_exists", "cs_create", "ar_insert"}

\* C8: every engine call is given a context with the 60-second deadline and
\* a cancel function that is deferred.
C8_EngineCallsCarryTheDeadline ==
    \A w \in Workers :
        pc[w] \in EngineCallPoints =>
            /\ ctx[w].hasDeadline
            /\ ctx[w].deadline = timeout
            /\ ctx[w].cancelDeferred

\* C9: the cache holds only streams that exist in the engine; a lookup that
\* found the stream missing returns errStreamNotExist, and neither it nor a
\* lookup whose engine call failed goes on to fill the cache.
C9_CacheHoldsExistingStreams ==
    /\ streamCache \subseteq engStreams
    /\ \A w \in Workers :
          /\ (how[w] = "notexist" /\ pc[w] \in {"se_ret", "ar_enter"}) =>
                 err[w] = errStreamNotExist
          /\ how[w] \in {"notexist", "iofail"} => pc[w] # "gs_install"

\* a lookup has found a stream missing while the cache holds another
C9_Witness ==
    /\ streamCache # {}
    /\ \E w \in Workers : how[w] = "notexist" /\ pc[w] = "se_ret"

\* C10: StreamExists returns (true, nil) iff the stream was cached or the
\* engine reported it, (false, nil) iff the engine reported it missing, and
\* (false, error) iff the engine call failed.
C10_StreamExistsTellsThreeOutcomes ==
    \A w \in Workers :
        (call[w] = "StreamExists" /\ pc[w] = "done") =>
            /\ (ret[w] = [exists |-> TRUE, err |-> Nil]) <=> (how[w] \in {"cached", "exists"})
            /\ (ret[w] = [exists |-> FALSE, err |-> Nil]) <=> (how[w] = "notexist")
            /\ (~ret[w].exists /\ ret[w].err # Nil) <=> (how[w] = "iofail")

\* one StreamExists has returned after a failed engine call, another after
\* the engine reported the stream missing
C10_Witness ==
    \E w, v \in Workers :
        /\ call[w] = "StreamExists" /\ pc[w] = "done" /\ how[w] = "iofail"
        /\ call[v] = "StreamExists" /\ pc[v] = "done" /\ how[v] = "notexist"

---------------------------------------------------------------------------
(* Claims about queries and start-up *)

\* C11: whenever HandleQuery returned an error for a request, listenQueries
\* publishes once, on the requester's reply signal, exactly one QueryError
\* payload with the request's query string, its nonce and the error's text,
\* and nothing else.
C11_FailedQueryGetsOneQueryError ==
    qlog.hq.err # Nil =>
        /\ qlog.publishes =
             << [uri |-> SignalURI(qlog.msg.from),
                 pos |-> << PO("QueryError", qlog.query.Nonce, qlog.query.Query,
                               qlog.hq.err, 0) >>] >>
        /\ qlog.msg.po = "query" =>
             qlog.query = [Query |-> qlog.msg.query, Nonce |-> qlog.msg.nonce]

\* a DISTINCT query whose evaluator failed: HandleQuery returned a metadata
\* group beside the error
C11_Witness ==
    /\ qlog.outcome = "error"
    /\ qlog.hq.evaluator = "DistinctTag"
    /\ qlog.hq.md > 0
    /\ qlog.msg.nonce = 8

\* the message carries a query payload object that is malformed
Malformed(d) ==
    \/ d.msg.po \in {"notmsgpack", "undecodable"}
    \/ d.msg.po = "query" /\ d.hq.err = ParseErr

\* listenQueries has published a QueryError on the sender's reply signal
RepliedQueryError(d) ==
    \E i \in 1..Len(d.publishes) :
        /\ d.publishes[i].uri = SignalURI(d.msg.from)
        /\ \E j \in 1..Len(d.publishes[i].pos) : d.publishes[i].pos[j].type = "QueryError"

\* C12: for every message whose query payload object is malformed (not
\* msgpack, a body that does not decode, a query string that does not parse)
\* the requester gets a QueryError on its reply signal.
C12_MalformedQueryGetsQueryError ==
    (Malformed(qlog) /\ Len(qlog.msg.from) > 0) => RepliedQueryError(qlog)

\* C13: no inbound query message makes listenQueries panic, the one with an
\* empty sender key included, and no read of one UUID panics, the UUID of no
\* stream included.
C13_NoInputPanics ==
    /\ qlog.outcome # "panic"
    /\ \A w \in Workers : pc[w] # "panicked"

\* the evaluators of the variants that return stream data
DataEvaluators == {"SelectDataRange", "SelectDataBefore", "SelectDataAfter",
                   "SelectStatisticalData", "GetChangedRanges"}

\* C14: for every variant that returns stream data (DATA IN / BEFORE /
\* AFTER, STATISTICAL, WINDOW, CHANGED) HandleQuery gives the requester key
\* to the variant's evaluator.
C14_DataEvaluatorsGetTheRequesterKey ==
    qlog.hq.evaluator \in DataEvaluators => qlog.hq.key = qlog.msg.from

\* the start-up failures the specification calls fatal
FatalAtInit == {"resolve", "tsconnect", "index"}

\* NewArchiver has gone on past the set-up of the two stores
GoneOn ==
    \/ newPc.at \in {"bw", "expiry", "vm", "pool", "returned"}
    \/ setup \cap {"bw", "dotmaster", "vm", "pool"} # {}

\* C15: when the metadata address does not resolve, the timeseries engine
\* cannot be connected to or a metadata index cannot be made, NewArchiver
\* exits the process with a non-zero status and never goes on to the fabric
\* client, the view manager or the query worker pool.
C15_FatalInitFailuresExit ==
    failed \cap FatalAtInit # {} =>
        /\ ~GoneOn
        /\ exitCode = Running => newPc.at = "checkts"
        /\ exitCode # Running => exitCode = FatalExit

\* C19: while the adapter is connected no step lowers completedWrites, the
\* periodic report included.
C19_CompletedWritesNeverFalls ==
    [][ connected => completedWrites' >= completedWrites ]_vars

\* C20: in every streaming read, a value channel the engine handed back still
\* holds points only while the read is in the loop that receives from that
\* channel: it is drained before the generation and the error are received,
\* before the next stream's call and before the read returns, on the error
\* path too.
C20_ValueChannelsAreDrained ==
    \A w \in Workers :
        \A i \in 1..Len(rd[w].chans) :
            rd[w].chans[i] > 0 => (pc[w] = "rd_range" /\ i = Len(rd[w].chans))

\* a read has returned the engine's error after it received points from the
\* failing stream's value channel
C20_Witness ==
    \E w \in Workers :
        /\ pc[w] = "rd_done"
        /\ ret[w].err # Nil
        /\ rd[w].records > 0
        /\ Len(rd[w].chans) = 2

---------------------------------------------------------------------------
(* Claims about RegisterStream, the timeseries bucket, replies and shutdown *)

\* C22: RegisterStream returns createStream's err; when that is nil the
\* stream's handle is in the cache, when it is not it is the engine's error
\* and the failed Create left the cache as it was.  The cache never loses a
\* handle, and StreamExists of a cached UUID answers true from the cache,
\* without going to the engine.
C22_RegisterStreamCachesTheHandle ==
    [][ /\ streamCache \subseteq streamCache'
        /\ \A w \in Workers :
             /\ (pc[w] = "rs_ret" /\ pc'[w] # "rs_ret") =>
                   /\ ret'[w].err = err[w]
                   /\ err[w] = Nil => arg[w] \in streamCache'
                   /\ err[w] # Nil => err[w] = EngineErr
             /\ (pc[w] = "cs_create" /\ pc'[w] = "rs_ret") =>
                   /\ err'[w] = EngineErr
                   /\ streamCache' = streamCache
             /\ (call[w] = "StreamExists" /\ pc[w] = "gs_cache" /\ pc'[w] # "gs_cache"
                   /\ arg[w] \in streamCache) =>
                   /\ pc'[w] = "se_ret"
                   /\ how'[w] = "cached"
             /\ (pc[w] = "se_ret" /\ how[w] = "cached" /\ pc'[w] # "se_ret") =>
                   /\ ret'[w].exists
                   /\ ret'[w].err = Nil
      ]_vars

\* a goroutine's RegisterStream has succeeded and the other's StreamExists of
\* the same UUID has answered true from the cache
C22_Witness ==
    \E w, v \in Workers :
        /\ call[v] = "RegisterStream" /\ pc[v] = "done" /\ ret[v].err = Nil
        /\ call[w] = "StreamExists" /\ pc[w] = "done" /\ arg[w] = arg[v]
        /\ how[w] = "cached" /\ ret[w].exists
        /\ arg[w] \in streamCache

\* C25: AddTimeseriesURI(u) for a URI u that is stored already leaves the
\* set of stored timeseries URIs as it was, and with it the outcome of
\* GetTimeseriesSuperstrings(p) for every prefix p.
C25_AddTimeseriesURIIsIdempotent ==
    [][ (tsSeq' # tsSeq /\ res'.op = "AddTimeseriesURI" /\ res'.arg \in DOMAIN tsB) =>
           /\ DOMAIN tsB' = DOMAIN tsB
           /\ \A p \in URIs : GetTimeseriesSuperstrings(p)' = GetTimeseriesSuperstrings(p)
      ]_vars

\* the last write was AddTimeseriesURI of a URI that had been added before,
\* and a URI beside it is stored
C25_Witness ==
    /\ res.op = "AddTimeseriesURI"
    /\ res.arg \in DOMAIN tsB
    /\ tsSeq > Cardinality(DOMAIN tsB)
    /\ Cardinality(DOMAIN tsB) >= 2

\* the reply signal of a sender key, spelled out: the key without its last
\* character, then ",queries"
ReplySignalOf(from) == [ i \in 1..(Len(from) - 1) |-> from[i] ] \o <<",queries">>

\* C26: every payload object listenQueries publishes for a request carries
\* the request's nonce, and it is published on the signal made of the
\* request's sender key.
C26_RepliesCarryNonceAndSignal ==
    \A i \in 1..Len(qlog.publishes) :
        /\ qlog.publishes[i].uri = ReplySignalOf(qlog.msg.from)
        /\ Len(qlog.publishes[i].pos) > 0
        /\ \A j \in 1..Len(qlog.publishes[i].pos) :
              /\ qlog.publishes[i].pos[j].nonce = qlog.query.Nonce
              /\ qlog.msg.po = "query" => qlog.publishes[i].pos[j].nonce = qlog.msg.nonce

\* a query with nonce 8 whose evaluation failed has been answered
C26_Witness ==
    /\ qlog.outcome = "error"
    /\ qlog.msg.po = "query"
    /\ qlog.msg.nonce = 8
    /\ qlog.msg.from = <<"k", "2", "=">>
    /\ Len(qlog.publishes) = 1

\* the result lists of r other than those named in keep are empty
OnlyGroups(r, keep) ==
    /\ "md" \notin keep => r.md = 0
    /\ "ts" \notin keep => r.ts = 0
    /\ "stats" \notin keep => r.stats = 0
    /\ "changed" \notin keep => r.changed = 0

\* C27: HandleQuery fills only the result list of the query's variant:
\* SELECT metadata, SELECT DISTINCT one metadata group, STATISTICAL and WINDOW
\* statistics, CHANGED changed ranges, DATA IN / BEFORE / AFTER timeseries; a
\* query that does not parse gives an error and no results.
C27_ResultsAreInTheVariantsGroup ==
    (qlog.outcome \in {"error", "reply"} /\ qlog.msg.po = "query") =>
        LET q == qlog.msg.query
            r == qlog.hq
        IN  /\ q = "select" => OnlyGroups(r, {"md"})
            /\ q = "select distinct" => (OnlyGroups(r, {"md"}) /\ r.md = 1)
            /\ q \in {"statistical", "window"} => OnlyGroups(r, {"stats"})
            /\ q = "changed" => OnlyGroups(r, {"changed"})
            /\ q \in {"data in", "data before", "data after"} => OnlyGroups(r, {"ts"})
            /\ q \in {"", "garbage"} => (OnlyGroups(r, {}) /\ r.err = ParseErr)
            /\ r.err = ParseErr => q \in {"", "garbage"}

\* a STATISTICAL query has been answered with a statistics group
C27_Witness ==
    /\ qlog.outcome = "reply"
    /\ qlog.msg.query = "statistical"
    /\ qlog.hq.stats = 1

\* the non-empty payloads a reply is made of: metadata, timeseries with
\* statistics, changed ranges
NonEmptyGroups(r) ==
    (IF r.md > 0 THEN 1 ELSE 0) + (IF r.ts + r.stats > 0 THEN 1 ELSE 0)
        + (IF r.changed > 0 THEN 1 ELSE 0)

\* C28: a query that was evaluated without error is answered by one publish
\* of one payload per non-empty result group, and of one empty metadata
\* payload when no group has results: between 1 and 3 payload objects.
C28_EvaluatedQueryGetsAReply ==
    (qlog.outcome # "none" /\ qlog.hq # NotHandled /\ qlog.hq.err = Nil) =>
        /\ qlog.outcome = "reply"
        /\ Len(qlog.publishes) = 1
        /\ LET pos == qlog.publishes[1].pos
           IN  /\ Len(pos) \in 1..3
               /\ NonEmptyGroups(qlog.hq) > 0 => Len(pos) = NonEmptyGroups(qlog.hq)
               /\ NonEmptyGroups(qlog.hq) = 0 =>
                     (Len(pos) = 1 /\ pos[1].type = "Metadata" /\ pos[1].n = 0)
               /\ \A j \in 1..Len(pos) : pos[j].type # "QueryError"

\* a SELECT that found nothing has been answered
C28_Witness ==
    /\ qlog.outcome = "reply"
    /\ qlog.msg.query = "select"
    /\ qlog.hq.md = 0
    /\ Len(qlog.publishes) = 1

\* C29: uuidsToStreams keeps exactly the UUIDs whose stream exists: the lookup
\* of a UUID whose stream exists in the engine ends without an error, and the
\* loop appends the stream of every lookup that ended so and skips the others.
C29_ExistingStreamsAreOperatedOn ==
    [][ \A w \in Workers :
          /\ (call[w] = "uuidsToStreams" /\ pc[w] = "gs_exists" /\ pc'[w] # "gs_exists"
                /\ arg[w] \in engStreams) => err'[w] = Nil
          /\ (pc[w] = "u2s_ret" /\ pc'[w] = "u2s_loop") =>
                rd'[w].streams = IF err[w] = Nil THEN Append(rd[w].streams, arg[w])
                                 ELSE rd[w].streams
      ]_vars

\* C29 for the UUIDs whose lookup got an answer from the engine or the cache
C29_AnsweredLookupsAreKept ==
    [][ \A w \in Workers :
          (pc[w] = "u2s_ret" /\ pc'[w] = "u2s_loop") =>
              /\ how[w] \in {"cached", "exists"} =>
                    rd'[w].streams = Append(rd[w].streams, arg[w])
              /\ how[w] = "notexist" => rd'[w].streams = rd[w].streams
      ]_vars

\* C30: once Serve has returned, neither the signal goroutine nor a Stop call
\* stands at its send on the stop channel, which nothing receives from any more.
C30_NoSenderIsLeftBlocked ==
    servePc = "returned" =>
        /\ sigPc # "send"
        /\ \A c \in StopCallers : stopPc[c] # "send"

\* C30, Serve's part: the context is cancelled before Disconnect, and
\* Disconnect has run when Serve has returned
C30_CancelBeforeDisconnect ==
    /\ ~connected => cancelled
    /\ servePc = "returned" => (cancelled /\ ~connected)

---------------------------------------------------------------------------
(* Claims about annotations, the metadata store and ValidTimestamp *)

\* C21: when two AddAnnotations calls on one stream have both read the same
\* annotation version and both made their compare-and-set, at most one of the
\* two was applied; a call that was not applied has returned an error to its
\* caller, and the one that was applied has returned nil and its update is
\* the stream's annotation, one version on.
C21_InterleavedUpdatesConflict ==
    \A w, v \in Workers :
        (/\ w # v
         /\ pc[w] = "aa_done" /\ pc[v] = "aa_done"
         /\ an[w].read /\ an[v].read
         /\ rd[w].uuids = rd[v].uuids
         /\ an[w].ver = an[v].ver) =>
            /\ ~(an[w].applied /\ an[v].applied)
            /\ ~an[w].applied => ret[w].err \in {ErrConflict, EngineErr}
            /\ an[w].applied =>
                  /\ ret[w].err = Nil
                  /\ ann[rd[w].uuids[1]] = [ver |-> an[w].ver + 1, val |-> an[w].update]

\* two calls read the same version; one was applied, the other has returned
\* the conflict
C21_Witness ==
    \E w, v \in Workers :
        /\ w # v
        /\ pc[w] = "aa_done" /\ pc[v] = "aa_done"
        /\ an[w].read /\ an[v].read
        /\ rd[w].uuids = rd[v].uuids
        /\ an[w].ver = an[v].ver
        /\ an[w].applied /\ ret[w].err = Nil
        /\ ~an[v].applied /\ ret[v].err = ErrConflict
        /\ an[w].update # an[v].update

\* the timestamp of a call in nanoseconds
InNanoseconds == vt.time * NsPer(vt.uot)

\* the call's unit conversion was made and failed
ConversionFailed == vt.uot # "UOT_NS" /\ vt.conv # "ok"

\* C23: ValidTimestamp(t, unit) is true iff the conversion to nanoseconds did
\* not fail and t in nanoseconds lies in [0, MaximumTime]: at nanosecond scale
\* true for 0 and MaximumTime, false for -1 and MaximumTime + 1.
C23_ValidTimestampIsTheRangeTest ==
    vt.asked =>
        /\ vt.valid <=>
              (~ConversionFailed /\ InNanoseconds >= 0 /\ InNanoseconds <= MaximumTime)
        /\ (vt.uot = "UOT_NS" /\ vt.time \in {0, MaximumTime}) => vt.valid
        /\ (vt.uot = "UOT_NS" /\ vt.time \in {-1, MaximumTime + 1}) => ~vt.valid
        /\ ConversionFailed => ~vt.valid

\* MaximumTime in microseconds has been found valid
C23_Witness ==
    /\ vt.asked
    /\ vt.uot = "UOT_US"
    /\ InNanoseconds = MaximumTime
    /\ vt.valid

\* the documents of a collection that have the (Key, SrcURI) pair p
DocsOf(coll, p) == { i \in 1..Len(coll) : coll[i].Key = p[1] /\ coll[i].SrcURI = p[2] }

\* the positions, among the records a call upserted, of those with the pair p
UpsertedOf(r, p) ==
    { i \in 1..r.n : r.records[i].Key = p[1] /\ r.records[i].SrcURI = p[2] }

\* C24: after a SaveMetadata call the store holds at most one document per
\* (Key, SrcURI) pair; for a pair the call upserted it is the last record the
\* call upserted for it, for any other pair what the store held before.  A
\* call with no records changes nothing and returns nil.
C24_SaveIsAnUpsertPerPair ==
    [][ LET r == saveRet'
        IN  /\ \A p \in MdPairs :
                 /\ Cardinality(DocsOf(metadata', p)) <= 1
                 /\ UpsertedOf(r, p) # {} =>
                       LET last == CHOOSE i \in UpsertedOf(r, p) :
                                      \A j \in UpsertedOf(r, p) : j <= i
                       IN  \E d \in DocsOf(metadata', p) : metadata'[d] = r.records[last]
                 /\ UpsertedOf(r, p) = {} =>
                       { metadata'[d] : d \in DocsOf(metadata', p) }
                          = { metadata[d] : d \in DocsOf(metadata, p) }
            /\ Len(r.records) = 0 => (metadata' = metadata /\ r.err = Nil)
            /\ r.err = Nil <=> r.n = Len(r.records)
      ]_vars

\* a call has saved two records of one pair with different values beside a
\* document of another pair, and the store holds the second
C24_Witness ==
    /\ saveRet.n = 2
    /\ saveRet.records[1].Key = saveRet.records[2].Key
    /\ saveRet.records[1].SrcURI = saveRet.records[2].SrcURI
    /\ saveRet.records[1].Value # saveRet.records[2].Value
    /\ Len(metadata) = 2
    /\ \E d \in 1..Len(metadata) : metadata[d] = saveRet.records[2]

=============================================================================
